---- MODULE Spec2Model ----
(***************************************************************************)
(* serde_pipe: a Serializer pipe (push T, pull u8) and a Deserializer pipe *)
(* (push u8, pull T), in the coroutine backend of src/src/fringe.rs and    *)
(* the buffering backend of src/src/buffer.rs.                             *)
(*                                                                         *)
(* A coroutine is modelled by its suspension point (pc) and its locals; a  *)
(* resume runs it to its next suspend, to its return or to a panic.  Every *)
(* public operation is one action that performs all of its resumes.  The   *)
(* harness around the two pipes follows the three tests of src/src/lib.rs: *)
(* a Serializer alone, a Deserializer alone fed with encodings, and a      *)
(* Serializer feeding a Deserializer.                                      *)
(***************************************************************************)
EXTENDS Integers, Sequences, FiniteSets, TLC

VARIABLES
    backend,  \* "fringe" or "buffer": the backend that is compiled in
    scenario, \* "ser", "des" or "both": the pipes the harness drives
    ser,      \* struct Serializer of the backend
    des,      \* struct Deserializer of the backend
    fault,    \* "none", or the panic that ended the run
    dropped,  \* the pipes that have been dropped
    last,     \* the last call made and what it returned
    sent,     \* harness: the values accepted since the last empty
    emitted,  \* harness: the bytes Serializer::pull returned since the last empty
    wire,     \* harness: the bytes on their way to the Deserializer
    fed,      \* harness: the bytes pushed into the Deserializer since it was pinned
    pinned,   \* harness: the type of the pull that pinned the Deserializer, or "none"
    claimed,  \* harness: the values the Deserializer returned since the last empty
    stats,    \* harness: stacks allocated, bytes yielded and not yet handed on
    sends,    \* harness: the messages the last call resumed the coroutines with
    hand,     \* the call in progress, resume by resume: driver and coroutine
    pair      \* the Serializers of lib.rs, fringe.rs and buffer.rs side by side

vars == <<backend, scenario, ser, des, fault, dropped, last, sent, emitted, wire,
          fed, pinned, claimed, stats, sends, hand, pair>>

-----------------------------------------------------------------------------
(* Bounds of the model *)

\* Values one harness run pushes into a Serializer before it stops pushing.
MaxValues == 3

\* Bytes waiting on the pipe between the two sides above which the harness puts
\* no more onto it (the deserializer test's pipe.len() < 100).
MaxWire == 2

\* The bytes the harness pushes in place of a sentinel 0.
OtherBytes == {1, 255}

-----------------------------------------------------------------------------
(* The codec (bincode, fixed-width little-endian integers, one-byte Option tag) *)

Types == {"Unit", "U8", "U16", "OptU8"}

\* The values of each type the harness draws from; -1 is Option::None.
ValuesOf(T) ==
    CASE T = "Unit"  -> {0}
      [] T = "U8"    -> {0, 200}
      [] T = "U16"   -> {513}
      [] T = "OptU8" -> {-1, 200}

Values == UNION {{[t |-> T, v |-> x] : x \in ValuesOf(T)} : T \in Types}

\* bincode::serialize_into: the bytes written for value v of type T.
Encode(T, v) ==
    CASE T = "Unit"  -> <<>>
      [] T = "U8"    -> <<v>>
      [] T = "U16"   -> <<v % 256, v \div 256>>
      [] T = "OptU8" -> IF v = -1 THEN <<0>> ELSE <<1, v>>

\* bincode::deserialize_from after reading `got`: "done" (a value is complete),
\* "more" (it reads another byte) or "err" (an error that is not an I/O error).
DecodeStatus(T, got) ==
    CASE T = "Unit"  -> "done"
      [] T = "U8"    -> IF Len(got) >= 1 THEN "done" ELSE "more"
      [] T = "U16"   -> IF Len(got) >= 2 THEN "done" ELSE "more"
      [] T = "OptU8" -> IF Len(got) = 0 THEN "more"
                        ELSE IF got[1] = 0 THEN "done"
                        ELSE IF got[1] = 1 THEN (IF Len(got) >= 2 THEN "done" ELSE "more")
                        ELSE "err"

\* The value bincode::deserialize_from returns once DecodeStatus is "done".
DecodeValue(T, got) ==
    CASE T = "Unit"  -> 0
      [] T = "U8"    -> got[1]
      [] T = "U16"   -> got[1] + 256 * got[2]
      [] T = "OptU8" -> IF got[1] = 0 THEN -1 ELSE got[2]

-----------------------------------------------------------------------------
(* Messages and coroutine outputs *)

\* enum SerializerMsg<T> / enum DeserializerMsg: a message with its payload.
Msg(k, x) == [kind |-> k, arg |-> x]
MsgNext == Msg("Next", 0)
MsgKill == Msg("Kill", 0)
MsgEmpty == Msg("Empty", 0)
MsgNew(x) == Msg("New", x)

\* What Generator::resume hands back.  Encode side: "none" is Some(None), "byte"
\* is Some(Some(b)).  Decode side: "false" and "true" are Some(Left(_)), "value"
\* is Some(Right(t)).  Both: "finished" is None (the function returned), "panic"
\* is a panic inside the coroutine.
Out(tag, x) == [tag |-> tag, arg |-> x]

\* Step(c, o): the coroutine after a resume, with what the resume returned.
Step(c, o) == [co |-> c, out |-> o]

\* Option::None of the boxed backend instance, and of an Option<u8>.
NoInner == [type |-> "none"]
NoByte == -1

\* Call(c, ok, r): a method's return: the receiver after it, whether it returned
\* rather than panicked, and its result.
Call(c, ok, r) == [co |-> c, ok |-> ok, ret |-> r]

-----------------------------------------------------------------------------
(* fringe.rs SerializerInner<T>: the encode coroutine *)

\* SerializerInner::new: a generator that has not run yet.
SerializerInner_new(T) ==
    [type |-> T, pc |-> "unstarted", val |-> 0, idx |-> 0, sentinel |-> FALSE]

\* The loop head (line 29): the message is New(t), Kill or anything else; after
\* New(t) the coroutine suspends with no byte and waits for Next (line 34).
SerLoopHead(co, msg) ==
    IF msg.kind = "New"
    THEN Step([co EXCEPT !.pc = "armed", !.val = msg.arg, !.idx = 0, !.sentinel = FALSE],
              Out("none", 0))
    ELSE IF msg.kind = "Kill"
    THEN Step([co EXCEPT !.pc = "returned"], Out("finished", 0))
    ELSE Step([co EXCEPT !.pc = "panicked"], Out("panic", 0))

\* Mutant of SerWrite: the count == 0 sentinel is left out.
SerWrite_no_sentinel(co) ==
    LET enc == Encode(co.type, co.val)
    IN  IF co.idx < Len(enc)
        THEN Step([co EXCEPT !.pc = "write", !.idx = co.idx + 1],
                  Out("byte", enc[co.idx + 1]))
        ELSE Step([co EXCEPT !.pc = "top", !.val = 0, !.idx = 0, !.sentinel = FALSE],
                  Out("none", 0))

\* serialize_into through Counter and Writer (each byte is a suspend), the
\* count == 0 sentinel, then the suspend of the loop head: to the next suspend.
SerWrite(co) ==
    LET enc == Encode(co.type, co.val)
    IN  IF co.idx < Len(enc)
        THEN Step([co EXCEPT !.pc = "write", !.idx = co.idx + 1],
                  Out("byte", enc[co.idx + 1]))
        ELSE IF Len(enc) = 0 /\ ~co.sentinel
        THEN Step([co EXCEPT !.pc = "write", !.sentinel = TRUE], Out("byte", 0))
        ELSE Step([co EXCEPT !.pc = "top", !.val = 0, !.idx = 0, !.sentinel = FALSE],
                  Out("none", 0))

\* Generator::resume on the encode coroutine.
SerResume(co, msg) ==
    CASE co.pc \in {"unstarted", "top"} -> SerLoopHead(co, msg)
      [] co.pc \in {"armed", "write"} ->
            IF msg.kind = "Next" THEN SerWrite(co)
            ELSE Step([co EXCEPT !.pc = "panicked"], Out("panic", 0))
      [] OTHER -> Step([co EXCEPT !.pc = "panicked"], Out("panic", 0))

\* SerializerInner::push: resume(New(t)).unwrap(), assert!(x.is_none()).
SerializerInner_push(co, v) ==
    LET r == SerResume(co, MsgNew(v))
    IN  Call(r.co, r.out.tag = "none", NoByte)

\* SerializerInner::next: resume(Next).unwrap().
SerializerInner_next(co) ==
    LET r == SerResume(co, MsgNext)
    IN  Call(r.co, r.out.tag \in {"none", "byte"},
             IF r.out.tag = "byte" THEN r.out.arg ELSE NoByte)

\* SerializerInner::into_stack (and Drop): resume(Kill), assert!(x.is_none()).
SerializerInner_into_stack(co) ==
    LET r == SerResume(co, MsgKill)
    IN  Call(r.co, r.out.tag = "finished", NoByte)

-----------------------------------------------------------------------------
(* fringe.rs DeserializerInner<T>: the decode coroutine *)

\* DeserializerInner::new: a generator that has not run yet.
DeserializerInner_new(T) ==
    [type |-> T, pc |-> "unstarted", count |-> 0, got |-> <<>>, ret |-> 0]

\* deserialize_from over Reader, from the bytes read so far, with `slot` the
\* byte Reader holds (Reader.1) or NoByte, then the sentinel wait of a value read
\* from zero bytes, to the next suspend.
RECURSIVE DesDecode(_, _)
DesDecode(co, slot) ==
    LET status == DecodeStatus(co.type, co.got)
    IN  IF status = "err"
        THEN Step([co EXCEPT !.pc = "panicked"], Out("panic", 0))
        ELSE IF status = "more"
        THEN IF slot # NoByte
             THEN DesDecode([co EXCEPT !.got = Append(co.got, slot),
                                       !.count = co.count + 1], NoByte)
             ELSE Step([co EXCEPT !.pc = "read"], Out("false", 0))
        ELSE LET done == [co EXCEPT !.ret = DecodeValue(co.type, co.got)]
             IN  IF co.count = 0
                 THEN IF slot = NoByte
                      THEN Step([done EXCEPT !.pc = "sentinel"], Out("false", 0))
                      ELSE IF slot = 0
                      THEN Step([done EXCEPT !.pc = "got"], Out("false", 0))
                      ELSE Step([done EXCEPT !.pc = "panicked"], Out("panic", 0))
                 ELSE Step([done EXCEPT !.pc = "got"], Out("false", 0))
\* Mutant of DesLoopHead: the Reader of the value before is kept, with the
\* bytes it has read.
DesLoopHead_keeps_reader(co, msg) ==
    CASE msg.kind = "New"  -> DesDecode(co, msg.arg)
      [] msg.kind = "Next" -> DesDecode(co, NoByte)
      [] msg.kind = "Kill" -> Step([co EXCEPT !.pc = "returned"], Out("finished", 0))
      [] OTHER -> Step([co EXCEPT !.pc = "panicked"], Out("panic", 0))

\* The loop head (lines 314-322): New(t) and Next start a value with a fresh
\* Reader, Kill leaves the loop, Empty panics.
DesLoopHead(co, msg) ==
    LET fresh == [co EXCEPT !.count = 0, !.got = <<>>, !.ret = 0]
    IN  CASE msg.kind = "New"  -> DesDecode(fresh, msg.arg)
          [] msg.kind = "Next" -> DesDecode(fresh, NoByte)
          [] msg.kind = "Kill" -> Step([fresh EXCEPT !.pc = "returned"], Out("finished", 0))
          [] OTHER -> Step([co EXCEPT !.pc = "panicked"], Out("panic", 0))

\* Mutant of DesRead: the probe Next makes the read start over.
DesRead_probe_restarts(co, msg) ==
    CASE msg.kind = "New"  -> DesDecode(co, msg.arg)
      [] msg.kind = "Next" -> Step([co EXCEPT !.got = <<>>], Out("false", 0))
      [] msg.kind = "Kill" ->
            IF co.count = 0
            THEN Step([co EXCEPT !.pc = "returned"], Out("finished", 0))
            ELSE Step([co EXCEPT !.pc = "panicked"], Out("panic", 0))
      [] OTHER ->
            IF co.count > 0
            THEN Step([co EXCEPT !.pc = "eof"], Out("false", 0))
            ELSE Step([co EXCEPT !.pc = "panicked"], Out("panic", 0))
\* Mutant of DesRead: the probe Next is counted as a byte consumed.
DesRead_probe_counts(co, msg) ==
    CASE msg.kind = "New"  -> DesDecode(co, msg.arg)
      [] msg.kind = "Next" -> Step([co EXCEPT !.count = co.count + 1], Out("false", 0))
      [] msg.kind = "Kill" ->
            IF co.count = 0
            THEN Step([co EXCEPT !.pc = "returned"], Out("finished", 0))
            ELSE Step([co EXCEPT !.pc = "panicked"], Out("panic", 0))
      [] OTHER ->
            IF co.count > 0
            THEN Step([co EXCEPT !.pc = "eof"], Out("false", 0))
            ELSE Step([co EXCEPT !.pc = "panicked"], Out("panic", 0))

\* Reader::read suspended for a byte (line 351) and resumed with msg.
DesRead(co, msg) ==
    CASE msg.kind = "New"  -> DesDecode(co, msg.arg)
      [] msg.kind = "Next" -> Step(co, Out("false", 0))
      [] msg.kind = "Kill" ->
            IF co.count = 0
            THEN Step([co EXCEPT !.pc = "returned"], Out("finished", 0))
            ELSE Step([co EXCEPT !.pc = "panicked"], Out("panic", 0))
      [] OTHER ->
            IF co.count > 0
            THEN Step([co EXCEPT !.pc = "eof"], Out("false", 0))
            ELSE Step([co EXCEPT !.pc = "panicked"], Out("panic", 0))
\* Mutant of DesSentinel: whatever byte arrives is taken for the sentinel.
DesSentinel_any_byte(co, msg) ==
    CASE msg.kind = "New"  -> Step([co EXCEPT !.pc = "got"], Out("false", 0))
      [] msg.kind = "Next" -> Step(co, Out("false", 0))
      [] msg.kind = "Kill" -> Step([co EXCEPT !.pc = "returned"], Out("finished", 0))
      [] OTHER -> Step([co EXCEPT !.pc = "panicked"], Out("panic", 0))

\* The sentinel wait (line 421) resumed with msg.
DesSentinel(co, msg) ==
    CASE msg.kind = "New"  ->
            IF msg.arg = 0
            THEN Step([co EXCEPT !.pc = "got"], Out("false", 0))
            ELSE Step([co EXCEPT !.pc = "panicked"], Out("panic", 0))
      [] msg.kind = "Next" -> Step(co, Out("false", 0))
      [] msg.kind = "Kill" -> Step([co EXCEPT !.pc = "returned"], Out("finished", 0))
      [] OTHER -> Step([co EXCEPT !.pc = "panicked"], Out("panic", 0))

\* Generator::resume on the decode coroutine.
DesResume(co, msg) ==
    CASE co.pc \in {"unstarted", "eof", "claimed"} -> DesLoopHead(co, msg)
      [] co.pc = "read" -> DesRead(co, msg)
      [] co.pc = "sentinel" -> DesSentinel(co, msg)
      [] co.pc = "got" ->
            IF msg.kind = "Next"
            THEN Step([co EXCEPT !.pc = "ready"], Out("true", 0))
            ELSE Step([co EXCEPT !.pc = "panicked"], Out("panic", 0))
      [] co.pc = "ready" ->
            IF msg.kind = "Next"
            THEN Step([co EXCEPT !.pc = "claimed"], Out("value", co.ret))
            ELSE Step([co EXCEPT !.pc = "panicked"], Out("panic", 0))
      [] OTHER -> Step([co EXCEPT !.pc = "panicked"], Out("panic", 0))

\* DeserializerInner::done: resume(Next).unwrap().left().unwrap().
DeserializerInner_done(co) ==
    LET r == DesResume(co, MsgNext)
    IN  Call(r.co, r.out.tag \in {"false", "true"}, r.out.tag = "true")

\* DeserializerInner::empty: resume(Empty).unwrap(), assert!(!x.left().unwrap()).
DeserializerInner_empty(co) ==
    LET r == DesResume(co, MsgEmpty)
    IN  Call(r.co, r.out.tag = "false", 0)

\* DeserializerInner::retrieve and ::discard: resume(Next).unwrap().right().unwrap().
DeserializerInner_retrieve(co) ==
    LET r == DesResume(co, MsgNext)
    IN  Call(r.co, r.out.tag = "value", r.out.arg)

\* DeserializerInner::next: resume(New(x)).unwrap(), assert!(!x.left().unwrap()).
DeserializerInner_next(co, x) ==
    LET r == DesResume(co, MsgNew(x))
    IN  Call(r.co, r.out.tag = "false", 0)

\* DeserializerInner::into_stack (and Drop): resume(Kill), assert!(x.is_none()).
DeserializerInner_into_stack(co) ==
    LET r == DesResume(co, MsgKill)
    IN  Call(r.co, r.out.tag = "finished", 0)

-----------------------------------------------------------------------------
(* fringe.rs Serializer *)

\* Res(st, f, r, a, y): a public call's effect: the struct after it, the panic
\* it ended in ("none": it returned), its result, the stacks it allocated and the
\* bytes the coroutine yielded during it.
\* ResM adds msgs, the messages the call resumed the coroutine with, in order,
\* each with the suspension it was delivered to (SerRx, DesRx).
ResM(st, f, r, a, y, m) ==
    [st |-> st, fault |-> f, ret |-> r, alloc |-> a, yielded |-> y, msgs |-> m]
Res(st, f, r, a, y) == ResM(st, f, r, a, y, <<>>)

\* A resume of the encode coroutine co with message kind k: where the coroutine
\* is suspended and how many bytes of the value it has written.
SerRx(k, co) == [to |-> "ser", kind |-> k, pc |-> co.pc, count |-> co.idx]

\* A resume of the decode coroutine co with message kind k: where the coroutine
\* is suspended and how many bytes of the value its Reader has consumed.
DesRx(k, co) == [to |-> "des", kind |-> k, pc |-> co.pc, count |-> co.count]

\* Serializer::new.
Serializer_new == [serializer |-> NoInner, done |-> TRUE, pull |-> NoByte]

\* Serializer::push_avail.
Serializer_push_avail(s) == s.done

\* Serializer::push returns Some (line 203).
Serializer_push_some(s) == s.done

\* while self.serializer.as_mut().unwrap().next_box().is_some() {} (line 265):
\* the coroutine after the loop, and in ret the bytes it yielded.
RECURSIVE SerDrain(_, _)
SerDrain(co, n) ==
    LET ret == SerializerInner_next(co)
    IN  IF ~ret.ok THEN Call(ret.co, FALSE, n)
        ELSE IF ret.ret = NoByte THEN Call(ret.co, TRUE, n)
        ELSE SerDrain(ret.co, n + 1)

\* The resumes of that loop: Next until the coroutine yields no byte.
RECURSIVE SerDrainRx(_)
SerDrainRx(co) ==
    LET ret == SerializerInner_next(co)
    IN  <<SerRx("Next", co)>> \o
        (IF ~ret.ok \/ ret.ret = NoByte THEN <<>> ELSE SerDrainRx(ret.co))

\* Mutant of Serializer_push: the whole encoding is pulled out of the coroutine
\* at once and only its first byte is kept.
Serializer_push_drains(s, T, t) ==
    LET new   == SerializerInner_push(SerializerInner_new(T), t)
        ret   == SerializerInner_next(new.co)
        rest  == SerDrain(ret.co, 1)
    IN  Res([serializer |-> rest.co, done |-> FALSE, pull |-> ret.ret], "none", NoByte,
            1, rest.ret)
\* Mutant of Serializer_push: every reinstall allocates a stack of its own.
Serializer_push_fresh_stack(s, T, t) ==
    LET installed == s.serializer.type # "none"
        reinstall == ~installed \/ s.serializer.type # T
        kill  == IF reinstall /\ installed
                 THEN SerializerInner_into_stack(s.serializer)
                 ELSE Call(s.serializer, TRUE, NoByte)
        inner == IF reinstall THEN SerializerInner_new(T) ELSE s.serializer
        new   == SerializerInner_push(inner, t)
        ret   == SerializerInner_next(new.co)
        alloc == IF reinstall THEN 1 ELSE 0
        f     == IF ~kill.ok THEN "SerializerInner::into_stack"
                 ELSE IF ~new.ok THEN "SerializerInner::push"
                 ELSE IF ~ret.ok THEN "SerializerInner::next"
                 ELSE IF ret.ret = NoByte THEN "Serializer::push unwrap"
                 ELSE "none"
        msgs  == (IF reinstall /\ installed THEN <<SerRx("Kill", s.serializer)>> ELSE <<>>)
                 \o (IF kill.ok THEN <<SerRx("New", inner)>> ELSE <<>>)
                 \o (IF kill.ok /\ new.ok THEN <<SerRx("Next", new.co)>> ELSE <<>>)
    IN  ResM([serializer |-> ret.co, done |-> FALSE, pull |-> ret.ret], f, NoByte,
             alloc, IF ret.ok /\ ret.ret # NoByte THEN 1 ELSE 0, msgs)
\* Mutant of Serializer_push: the backend is reinstalled for every value.
Serializer_push_always_reinstalls(s, T, t) ==
    LET installed == s.serializer.type # "none"
        kill  == IF installed
                 THEN SerializerInner_into_stack(s.serializer)
                 ELSE Call(s.serializer, TRUE, NoByte)
        inner == SerializerInner_new(T)
        new   == SerializerInner_push(inner, t)
        ret   == SerializerInner_next(new.co)
        alloc == IF ~installed THEN 1 ELSE 0
        f     == IF ~kill.ok THEN "SerializerInner::into_stack"
                 ELSE IF ~new.ok THEN "SerializerInner::push"
                 ELSE IF ~ret.ok THEN "SerializerInner::next"
                 ELSE IF ret.ret = NoByte THEN "Serializer::push unwrap"
                 ELSE "none"
        msgs  == (IF installed THEN <<SerRx("Kill", s.serializer)>> ELSE <<>>)
                 \o (IF kill.ok THEN <<SerRx("New", inner)>> ELSE <<>>)
                 \o (IF kill.ok /\ new.ok THEN <<SerRx("Next", new.co)>> ELSE <<>>)
    IN  ResM([serializer |-> ret.co, done |-> FALSE, pull |-> ret.ret], f, NoByte,
             alloc, IF ret.ok /\ ret.ret # NoByte THEN 1 ELSE 0, msgs)

\* The closure Serializer::push::<T> returns, called with t.
Serializer_push(s, T, t) ==
    LET installed == s.serializer.type # "none"
        reinstall == ~installed \/ s.serializer.type # T
        kill  == IF reinstall /\ installed
                 THEN SerializerInner_into_stack(s.serializer)
                 ELSE Call(s.serializer, TRUE, NoByte)
        inner == IF reinstall THEN SerializerInner_new(T) ELSE s.serializer
        new   == SerializerInner_push(inner, t)
        ret   == SerializerInner_next(new.co)
        alloc == IF reinstall /\ ~installed THEN 1 ELSE 0
        f     == IF ~kill.ok THEN "SerializerInner::into_stack"
                 ELSE IF ~new.ok THEN "SerializerInner::push"
                 ELSE IF ~ret.ok THEN "SerializerInner::next"
                 ELSE IF ret.ret = NoByte THEN "Serializer::push unwrap"
                 ELSE "none"
        msgs  == (IF reinstall /\ installed THEN <<SerRx("Kill", s.serializer)>> ELSE <<>>)
                 \o (IF kill.ok THEN <<SerRx("New", inner)>> ELSE <<>>)
                 \o (IF kill.ok /\ new.ok THEN <<SerRx("Next", new.co)>> ELSE <<>>)
    IN  ResM([serializer |-> ret.co, done |-> FALSE, pull |-> ret.ret], f, NoByte,
             alloc, IF ret.ok /\ ret.ret # NoByte THEN 1 ELSE 0, msgs)

\* Serializer::pull_avail.
Serializer_pull_avail(s) == s.pull # NoByte

\* Serializer::pull returns Some (line 239).
Serializer_pull_some(s) == s.pull # NoByte

\* Mutant of Serializer_pull: the byte just fetched is returned instead of the
\* look-ahead byte.
Serializer_pull_returns_refill(s) ==
    LET ret == SerializerInner_next(s.serializer)
    IN  Res([serializer |-> ret.co, done |-> (ret.ret = NoByte), pull |-> ret.ret],
            IF ret.ok THEN "none" ELSE "SerializerInner::next", ret.ret,
            0, IF ret.ok /\ ret.ret # NoByte THEN 1 ELSE 0)

\* Mutant of Serializer_pull: done is not set when the value is exhausted.
Serializer_pull_stays_busy(s) ==
    LET ret == SerializerInner_next(s.serializer)
    IN  Res([serializer |-> ret.co, done |-> FALSE, pull |-> ret.ret],
            IF ret.ok THEN "none" ELSE "SerializerInner::next", s.pull,
            0, IF ret.ok /\ ret.ret # NoByte THEN 1 ELSE 0)
\* Mutant of Serializer_pull: the pipe goes idle with the first byte pulled,
\* without asking the coroutine for more.
Serializer_pull_one_byte(s) ==
    Res([s EXCEPT !.pull = NoByte, !.done = TRUE], "none", s.pull, 0, 0)

\* The closure Serializer::pull returns.
Serializer_pull(s) ==
    IF ~s.done
    THEN LET ret == SerializerInner_next(s.serializer)
         IN  ResM([serializer |-> ret.co,
                   done |-> (ret.ret = NoByte),
                   pull |-> ret.ret],
                  IF ret.ok THEN "none" ELSE "SerializerInner::next", s.pull,
                  0, IF ret.ok /\ ret.ret # NoByte THEN 1 ELSE 0,
                  <<SerRx("Next", s.serializer)>>)
    ELSE Res([s EXCEPT !.pull = NoByte], "none", s.pull, 0, 0)

\* Serializer::empty_avail.
Serializer_empty_avail(s) == ~s.done \/ s.pull # NoByte
\* Mutant of Serializer_empty_some: available whenever a backend is installed.
Serializer_empty_some_installed(s) == s.serializer.type # "none"

\* Serializer::empty returns Some (line 262).
Serializer_empty_some(s) == ~s.done \/ s.pull # NoByte
\* Mutant of Serializer_empty: the coroutine is sent Kill instead of being
\* drained with Next.
Serializer_empty_kills(s) ==
    IF ~s.done
    THEN LET d == SerializerInner_into_stack(s.serializer)
         IN  Res([serializer |-> d.co, done |-> TRUE, pull |-> NoByte],
                 IF d.ok THEN "none" ELSE "SerializerInner::into_stack", NoByte, 0, 0)
    ELSE Res([s EXCEPT !.pull = NoByte], "none", NoByte, 0, 0)

\* Mutant of Serializer_empty: the look-ahead byte is not cleared.
Serializer_empty_keeps_byte(s) ==
    LET d == SerDrain(s.serializer, 0)
    IN  Res([serializer |-> d.co, done |-> TRUE, pull |-> s.pull],
            IF d.ok THEN "none" ELSE "SerializerInner::next", NoByte, 0, d.ret)

\* The closure Serializer::empty returns.
Serializer_empty(s) ==
    IF ~s.done
    THEN LET d == SerDrain(s.serializer, 0)
         IN  ResM([serializer |-> d.co, done |-> TRUE, pull |-> NoByte],
                  IF d.ok THEN "none" ELSE "SerializerInner::next", NoByte, 0, d.ret,
                  SerDrainRx(s.serializer))
    ELSE Res([s EXCEPT !.pull = NoByte], "none", NoByte, 0, 0)
\* Mutant of Serializer_drop: the assertion is left out.
Serializer_drop_unchecked(s) ==
    LET kill == IF s.serializer.type # "none"
                THEN SerializerInner_into_stack(s.serializer)
                ELSE Call(s.serializer, TRUE, NoByte)
    IN  Res([s EXCEPT !.serializer = NoInner], "none", NoByte, 0, 0)

\* impl Drop for Serializer, then the drop of its fields (SerializerInner::drop).
Serializer_drop(s) ==
    LET kill == IF s.serializer.type # "none"
                THEN SerializerInner_into_stack(s.serializer)
                ELSE Call(s.serializer, TRUE, NoByte)
    IN  ResM([s EXCEPT !.serializer = NoInner],
             IF ~(s.done /\ s.pull = NoByte) THEN "Serializer::drop"
             ELSE IF ~kill.ok THEN "SerializerInner::drop"
             ELSE "none", NoByte, 0, 0,
             IF s.serializer.type # "none" THEN <<SerRx("Kill", s.serializer)>> ELSE <<>>)

-----------------------------------------------------------------------------
(* lib.rs Serializer: the older variant of the coroutine Serializer *)

\* Serializer::push returns Some (lib.rs line 264).
LibSerializer_push_some(s) == s.done

\* The closure Serializer::push::<T> of lib.rs returns, called with t: as in
\* fringe.rs up to the first next_box(), whose None sets done again (lines
\* 285-289) where fringe.rs unwraps it.
LibSerializer_push(s, T, t) ==
    LET installed == s.serializer.type # "none"
        reinstall == ~installed \/ s.serializer.type # T
        kill  == IF reinstall /\ installed
                 THEN SerializerInner_into_stack(s.serializer)
                 ELSE Call(s.serializer, TRUE, NoByte)
        inner == IF reinstall THEN SerializerInner_new(T) ELSE s.serializer
        new   == SerializerInner_push(inner, t)
        ret   == SerializerInner_next(new.co)
        alloc == IF reinstall /\ ~installed THEN 1 ELSE 0
        f     == IF ~kill.ok THEN "SerializerInner::into_stack"
                 ELSE IF ~new.ok THEN "SerializerInner::push"
                 ELSE IF ~ret.ok THEN "SerializerInner::next"
                 ELSE "none"
        msgs  == (IF reinstall /\ installed THEN <<SerRx("Kill", s.serializer)>> ELSE <<>>)
                 \o (IF kill.ok THEN <<SerRx("New", inner)>> ELSE <<>>)
                 \o (IF kill.ok /\ new.ok THEN <<SerRx("Next", new.co)>> ELSE <<>>)
    IN  ResM([serializer |-> ret.co, done |-> (ret.ret = NoByte), pull |-> ret.ret], f,
             NoByte, alloc, IF ret.ok /\ ret.ret # NoByte THEN 1 ELSE 0, msgs)

\* Serializer::pull of lib.rs (lines 301-317), the text of fringe.rs.
LibSerializer_pull_some(s) == s.pull # NoByte
LibSerializer_pull(s) == Serializer_pull(s)

\* Serializer::empty of lib.rs (lines 324-336), the text of fringe.rs.
LibSerializer_empty_some(s) == ~s.done \/ s.pull # NoByte
LibSerializer_empty(s) == Serializer_empty(s)

\* Serializer::push_avail, pull_avail, empty_avail of lib.rs.
LibSerializer_push_avail(s) == s.done
LibSerializer_pull_avail(s) == s.pull # NoByte
LibSerializer_empty_avail(s) == ~s.done \/ s.pull # NoByte

-----------------------------------------------------------------------------
(* fringe.rs Deserializer *)

\* Deserializer::new.
Deserializer_new ==
    [deserializer |-> NoInner, done |-> TRUE, pending |-> FALSE, mid |-> FALSE]

\* Deserializer::pull_avail.
Deserializer_pull_avail(s) == s.pending
\* Mutant of Deserializer_pull_pin: an installed decoder is kept whatever its type.
Deserializer_pull_pin_keeps_backend(s, T) ==
    IF s.done
    THEN LET installed == s.deserializer.type # "none"
             inner == IF installed THEN s.deserializer ELSE DeserializerInner_new(T)
             probe == DeserializerInner_done(inner)
             f     == IF ~probe.ok THEN "DeserializerInner::done"
                      ELSE IF probe.ret THEN "Deserializer::pull assert"
                      ELSE "none"
         IN  Res([s EXCEPT !.done = FALSE, !.deserializer = probe.co], f, 0,
                 IF installed THEN 0 ELSE 1, 0)
    ELSE Res(s, "none", 0, 0, 0)

\* Deserializer::pull::<T>, before it decides what to return (lines 623-645):
\* when done, it pins T, installs a decoder of T and probes it.
Deserializer_pull_pin(s, T) ==
    IF s.done
    THEN LET installed == s.deserializer.type # "none"
             reinstall == ~installed \/ s.deserializer.type # T
             kill  == IF reinstall /\ installed
                      THEN DeserializerInner_into_stack(s.deserializer)
                      ELSE Call(s.deserializer, TRUE, 0)
             inner == IF reinstall THEN DeserializerInner_new(T) ELSE s.deserializer
             probe == DeserializerInner_done(inner)
             f     == IF ~kill.ok THEN "DeserializerInner::into_stack"
                      ELSE IF ~probe.ok THEN "DeserializerInner::done"
                      ELSE IF probe.ret THEN "Deserializer::pull assert"
                      ELSE "none"
             msgs  == (IF reinstall /\ installed
                       THEN <<DesRx("Kill", s.deserializer)>> ELSE <<>>)
                      \o (IF kill.ok THEN <<DesRx("Next", inner)>> ELSE <<>>)
         IN  ResM([s EXCEPT !.done = FALSE, !.deserializer = probe.co], f, 0,
                  IF reinstall /\ ~installed THEN 1 ELSE 0, 0, msgs)
    ELSE Res(s, "none", 0, 0, 0)

\* Deserializer::pull returns Some (line 646), in the struct as pinned.
Deserializer_pull_some(s) == s.pending

\* Mutant of Deserializer_pull: done is not set by the claim.
Deserializer_pull_stays_pinned(s, T) ==
    LET r == DeserializerInner_retrieve(s.deserializer)
    IN  Res([s EXCEPT !.pending = FALSE, !.deserializer = r.co],
            IF r.ok THEN "none" ELSE "DeserializerInner::retrieve", r.ret, 0, 0)

\* Mutant of Deserializer_pull: pending is not reset by the claim.
Deserializer_pull_stays_pending(s, T) ==
    LET r == DeserializerInner_retrieve(s.deserializer)
    IN  Res([s EXCEPT !.done = TRUE, !.deserializer = r.co],
            IF r.ok THEN "none" ELSE "DeserializerInner::retrieve", r.ret, 0, 0)

\* The closure Deserializer::pull::<T> returns.
Deserializer_pull(s, T) ==
    IF s.deserializer.type # T
    THEN Res([s EXCEPT !.pending = FALSE, !.done = TRUE],
             "Deserializer::pull downcast", 0, 0, 0)
    ELSE LET r == DeserializerInner_retrieve(s.deserializer)
         IN  ResM([s EXCEPT !.pending = FALSE, !.done = TRUE, !.deserializer = r.co],
                  IF r.ok THEN "none" ELSE "DeserializerInner::retrieve", r.ret, 0, 0,
                  <<DesRx("Next", s.deserializer)>>)

\* Deserializer::push_avail.
Deserializer_push_avail(s) == ~s.done /\ ~s.pending

\* Mutant of Deserializer_push_some: a value awaiting its claim is not looked at.
Deserializer_push_some_ignores_pending(s) == ~s.done

\* Deserializer::push returns Some (line 671).
Deserializer_push_some(s) == ~s.done /\ ~s.pending
\* Mutant of Deserializer_push: mid is not reset when the value completes.
Deserializer_push_keeps_mid(s, x) ==
    LET nxt   == DeserializerInner_next(s.deserializer, x)
        probe == DeserializerInner_done(nxt.co)
        f     == IF ~nxt.ok THEN "DeserializerInner::next"
                 ELSE IF ~probe.ok THEN "DeserializerInner::done"
                 ELSE "none"
        complete == nxt.ok /\ probe.ok /\ probe.ret
    IN  Res([s EXCEPT !.deserializer = probe.co,
                      !.mid = TRUE,
                      !.pending = IF complete THEN TRUE ELSE s.pending], f, 0, 0, 0)
\* Mutant of Deserializer_push: the value that completes sets done as well.
Deserializer_push_marks_done(s, x) ==
    LET nxt   == DeserializerInner_next(s.deserializer, x)
        probe == DeserializerInner_done(nxt.co)
        f     == IF ~nxt.ok THEN "DeserializerInner::next"
                 ELSE IF ~probe.ok THEN "DeserializerInner::done"
                 ELSE "none"
        complete == nxt.ok /\ probe.ok /\ probe.ret
    IN  ResM([s EXCEPT !.deserializer = probe.co,
                       !.mid = ~complete,
                       !.done = complete,
                       !.pending = IF complete THEN TRUE ELSE s.pending], f, 0, 0, 0,
             <<DesRx("New", s.deserializer)>>
             \o (IF nxt.ok THEN <<DesRx("Next", nxt.co)>> ELSE <<>>))

\* The closure Deserializer::push returns, called with x.
Deserializer_push(s, x) ==
    LET nxt   == DeserializerInner_next(s.deserializer, x)
        probe == DeserializerInner_done(nxt.co)
        f     == IF ~nxt.ok THEN "DeserializerInner::next"
                 ELSE IF ~probe.ok THEN "DeserializerInner::done"
                 ELSE "none"
        complete == nxt.ok /\ probe.ok /\ probe.ret
    IN  ResM([s EXCEPT !.deserializer = probe.co,
                       !.mid = ~complete,
                       !.pending = IF complete THEN TRUE ELSE s.pending], f, 0, 0, 0,
             <<DesRx("New", s.deserializer)>>
             \o (IF nxt.ok THEN <<DesRx("Next", nxt.co)>> ELSE <<>>))

\* Deserializer::empty_avail.
Deserializer_empty_avail(s) == s.mid \/ s.pending
\* Mutant of Deserializer_empty_some: available from the pinning pull on.
Deserializer_empty_some_from_pin(s) == ~s.done \/ s.pending

\* Deserializer::empty returns Some (line 691).
Deserializer_empty_some(s) == s.mid \/ s.pending

\* Mutant of Deserializer_empty: the flags are reset and the coroutine is left
\* where it was.
Deserializer_empty_forgets(s) ==
    Res([deserializer |-> s.deserializer, done |-> TRUE, pending |-> FALSE,
         mid |-> FALSE], "none", 0, 0, 0)
\* Mutant of Deserializer_empty: the interrupt is sent whether or not a byte of
\* the value has been pushed.
Deserializer_empty_always_interrupts(s) ==
    LET d  == IF s.pending
              THEN DeserializerInner_retrieve(s.deserializer)
              ELSE Call(s.deserializer, TRUE, 0)
        e  == DeserializerInner_empty(d.co)
        f  == IF ~d.ok THEN "DeserializerInner::discard"
              ELSE IF ~e.ok THEN "DeserializerInner::empty"
              ELSE "none"
        msgs == (IF s.pending THEN <<DesRx("Next", s.deserializer)>> ELSE <<>>)
                \o (IF d.ok THEN <<DesRx("Empty", d.co)>> ELSE <<>>)
    IN  ResM([deserializer |-> e.co, done |-> TRUE, pending |-> FALSE, mid |-> FALSE],
             f, 0, 0, 0, msgs)
\* Mutant of Deserializer_empty: a partial value is cancelled by tearing the
\* coroutine down, with Kill in place of Empty.
Deserializer_empty_tears_down(s) ==
    LET d  == IF s.pending
              THEN DeserializerInner_retrieve(s.deserializer)
              ELSE Call(s.deserializer, TRUE, 0)
        e  == IF s.mid
              THEN DeserializerInner_into_stack(d.co)
              ELSE Call(d.co, TRUE, 0)
        f  == IF ~d.ok THEN "DeserializerInner::discard"
              ELSE IF ~e.ok THEN "DeserializerInner::into_stack"
              ELSE "none"
        msgs == (IF s.pending THEN <<DesRx("Next", s.deserializer)>> ELSE <<>>)
                \o (IF s.mid /\ d.ok THEN <<DesRx("Kill", d.co)>> ELSE <<>>)
    IN  ResM([deserializer |-> e.co, done |-> TRUE, pending |-> FALSE, mid |-> FALSE],
             f, 0, 0, 0, msgs)

\* The closure Deserializer::empty returns.
Deserializer_empty(s) ==
    LET d  == IF s.pending
              THEN DeserializerInner_retrieve(s.deserializer)
              ELSE Call(s.deserializer, TRUE, 0)
        e  == IF s.mid
              THEN DeserializerInner_empty(d.co)
              ELSE Call(d.co, TRUE, 0)
        f  == IF ~d.ok THEN "DeserializerInner::discard"
              ELSE IF ~e.ok THEN "DeserializerInner::empty"
              ELSE "none"
        msgs == (IF s.pending THEN <<DesRx("Next", s.deserializer)>> ELSE <<>>)
                \o (IF s.mid /\ d.ok THEN <<DesRx("Empty", d.co)>> ELSE <<>>)
    IN  ResM([deserializer |-> e.co, done |-> TRUE, pending |-> FALSE, mid |-> FALSE],
             f, 0, 0, 0, msgs)

\* Mutant of Deserializer_drop: only a value awaiting its claim is asserted.
Deserializer_drop_ignores_mid(s) ==
    Res([s EXCEPT !.deserializer = NoInner],
        IF s.pending THEN "Deserializer::drop" ELSE "none", 0, 0, 0)

\* impl Drop for Deserializer, then the drop of its fields (DeserializerInner::drop).
Deserializer_drop(s) ==
    LET kill == IF s.deserializer.type # "none"
                THEN DeserializerInner_into_stack(s.deserializer)
                ELSE Call(s.deserializer, TRUE, 0)
    IN  ResM([s EXCEPT !.deserializer = NoInner],
             IF ~(~s.mid /\ ~s.pending) THEN "Deserializer::drop"
             ELSE IF ~kill.ok THEN "DeserializerInner::drop"
             ELSE "none", 0, 0, 0,
             IF s.deserializer.type # "none"
             THEN <<DesRx("Kill", s.deserializer)>> ELSE <<>>)

-----------------------------------------------------------------------------
(* buffer.rs: the backend that serializes into a buffer *)

\* mem::size_of::<usize>() on the tested platform.
WordSize == 8

\* bincode's encoding of a usize: WordSize bytes, least significant first.
RECURSIVE EncodeWordFrom(_, _)
EncodeWordFrom(n, k) ==
    IF k = 0 THEN <<>> ELSE <<n % 256>> \o EncodeWordFrom(n \div 256, k - 1)
EncodeWord(n) == EncodeWordFrom(n, WordSize)

\* bincode's decoding of a usize from WordSize bytes.
RECURSIVE DecodeWordFrom(_, _)
DecodeWordFrom(bs, i) ==
    IF i > Len(bs) THEN 0 ELSE bs[i] + 256 * DecodeWordFrom(bs, i + 1)
DecodeWord(bs) == DecodeWordFrom(bs, 1)

\* Serializer::new.
BufSerializer_new == [some |-> FALSE, buffer |-> <<>>, index |-> 0]

\* Serializer::push_avail.
BufSerializer_push_avail(s) == ~s.some

\* Serializer::push returns Some (line 66).
BufSerializer_push_some(s) == ~s.some
\* Mutant of BufSerializer_push: a zero-byte encoding is framed as it is, with
\* the length 0 and no sentinel byte.
BufSerializer_push_no_sentinel(s, T, t) ==
    LET enc == Encode(T, t)
    IN  Res([some |-> TRUE, buffer |-> EncodeWord(Len(enc)) \o enc, index |-> 0],
            "none", NoByte, 0, 0)
\* Mutant of BufSerializer_push: the length counts the bytes reserved for it.
BufSerializer_push_counts_prefix(s, T, t) ==
    LET enc     == Encode(T, t)
        payload == IF Len(enc) = 0 THEN <<0>> ELSE enc
        len     == WordSize + Len(payload)
    IN  Res([some |-> TRUE, buffer |-> EncodeWord(len) \o payload, index |-> 0],
            "none", NoByte, 0, 0)

\* The closure Serializer::push::<T> returns, called with t.
BufSerializer_push(s, T, t) ==
    LET enc     == Encode(T, t)
        payload == IF Len(enc) = 0 THEN <<0>> ELSE enc
        len     == IF Len(enc) = 0 THEN 1 ELSE Len(enc)
    IN  Res([some |-> TRUE, buffer |-> EncodeWord(len) \o payload, index |-> 0],
            "none", NoByte, 0, 0)

\* Serializer::pull_avail.
BufSerializer_pull_avail(s) == s.some

\* Serializer::pull returns Some (line 91).
BufSerializer_pull_some(s) == s.some

\* The closure Serializer::pull returns.
BufSerializer_pull(s) ==
    LET ret   == s.buffer[s.index + 1]
        index == s.index + 1
    IN  Res(IF index = Len(s.buffer) THEN BufSerializer_new
            ELSE [s EXCEPT !.index = index], "none", ret, 0, 0)

\* Serializer::empty_avail.
BufSerializer_empty_avail(s) == s.some

\* Serializer::empty returns Some (line 112).
BufSerializer_empty_some(s) == s.some

\* The closure Serializer::empty returns.
BufSerializer_empty(s) == Res(BufSerializer_new, "none", NoByte, 0, 0)

\* impl Drop for Serializer.
BufSerializer_drop(s) ==
    Res(s, IF s.some THEN "Serializer::drop" ELSE "none", NoByte, 0, 0)

\* Deserializer::new.
BufDeserializer_new == [buffer |-> <<>>, len |-> 0, deserializer |-> "none"]

\* Deserializer::pull_avail.
BufDeserializer_pull_avail(s) == s.len # 0 /\ Len(s.buffer) = s.len
\* Mutant of BufDeserializer_pull_pin: every pull pins its own type.
BufDeserializer_pull_pin_repins(s, T) ==
    Res([s EXCEPT !.deserializer = T], "none", 0, 0, 0)

\* Deserializer::pull::<T>, before it decides what to return (lines 192-196).
BufDeserializer_pull_pin(s, T) ==
    LET d == IF s.deserializer = "none" THEN T ELSE s.deserializer
    IN  Res([s EXCEPT !.deserializer = d],
            IF d = T THEN "none" ELSE "Deserializer::pull assert_eq", 0, 0, 0)

\* Deserializer::pull returns Some (line 197).
BufDeserializer_pull_some(s) == s.len # 0 /\ Len(s.buffer) = s.len

\* ReadCounter over deserialize_from(&*self.buffer): the bytes bincode reads,
\* or -1 when it fails (the buffer ends too early, or the bytes are no value).
RECURSIVE BufRead(_, _, _)
BufRead(T, buf, k) ==
    LET status == DecodeStatus(T, SubSeq(buf, 1, k))
    IN  IF status = "done" THEN k
        ELSE IF status = "err" \/ k = Len(buf) THEN -1
        ELSE BufRead(T, buf, k + 1)
\* Mutant of BufDeserializer_pull: the length read is not compared with the
\* length of the frame.
BufDeserializer_pull_unchecked_len(s, T) ==
    LET count == BufRead(T, s.buffer, 0)
        f     == IF count = -1 THEN "Deserializer::pull unwrap"
                 ELSE IF count = 0 /\ s.buffer[1] # 0 THEN "Deserializer::pull sentinel"
                 ELSE "none"
    IN  Res(BufDeserializer_new, f,
            IF count = -1 THEN 0 ELSE DecodeValue(T, SubSeq(s.buffer, 1, count)), 0, 0)

\* The closure Deserializer::pull::<T> returns.
BufDeserializer_pull(s, T) ==
    LET count == BufRead(T, s.buffer, 0)
        len   == IF count = 0 THEN 1 ELSE count
        f     == IF count = -1 THEN "Deserializer::pull unwrap"
                 ELSE IF count = 0 /\ s.buffer[1] # 0 THEN "Deserializer::pull sentinel"
                 ELSE IF len # s.len THEN "Deserializer::pull length"
                 ELSE "none"
    IN  Res(BufDeserializer_new, f,
            IF count = -1 THEN 0 ELSE DecodeValue(T, SubSeq(s.buffer, 1, count)), 0, 0)

\* Mutant of BufDeserializer_push_avail: the case of no length read yet is left out.
BufDeserializer_push_avail_no_len(s) ==
    s.deserializer # "none" /\ Len(s.buffer) # s.len

\* Deserializer::push_avail.
BufDeserializer_push_avail(s) ==
    s.deserializer # "none" /\ (Len(s.buffer) # s.len \/ s.len = 0)

\* Deserializer::push returns Some (line 225).
BufDeserializer_push_some(s) ==
    s.deserializer # "none" /\ (Len(s.buffer) # s.len \/ s.len = 0)
\* Mutant of BufDeserializer_push: the bytes of the length stay in the buffer.
BufDeserializer_push_keeps_prefix(s, x) ==
    LET buffer == Append(s.buffer, x)
    IN  Res(IF s.len = 0 /\ Len(buffer) = WordSize
            THEN [s EXCEPT !.len = DecodeWord(buffer), !.buffer = buffer]
            ELSE [s EXCEPT !.buffer = buffer], "none", 0, 0, 0)

\* The closure Deserializer::push returns, called with x.
BufDeserializer_push(s, x) ==
    LET buffer == Append(s.buffer, x)
    IN  Res(IF s.len = 0 /\ Len(buffer) = WordSize
            THEN [s EXCEPT !.len = DecodeWord(buffer), !.buffer = <<>>]
            ELSE [s EXCEPT !.buffer = buffer], "none", 0, 0, 0)

\* Deserializer::empty_avail.
BufDeserializer_empty_avail(s) ==
    s.buffer # <<>> \/ s.len # 0 \/ s.deserializer # "none"
\* Mutant of BufDeserializer_empty_some: the pinned type is not looked at.
BufDeserializer_empty_some_no_type(s) == s.buffer # <<>> \/ s.len # 0

\* Deserializer::empty returns Some (line 247).
BufDeserializer_empty_some(s) ==
    s.buffer # <<>> \/ s.len # 0 \/ s.deserializer # "none"

\* The closure Deserializer::empty returns.
BufDeserializer_empty(s) == Res(BufDeserializer_new, "none", 0, 0, 0)

\* impl Drop for Deserializer.
BufDeserializer_drop(s) ==
    Res(s, IF s.buffer = <<>> /\ s.len = 0 /\ s.deserializer = "none"
           THEN "none" ELSE "Deserializer::drop", 0, 0, 0)

-----------------------------------------------------------------------------
(* The compiled-in backend behind the public names *)

IsFringe == backend = "fringe"

push_avail_ser == IF IsFringe THEN Serializer_push_avail(ser) ELSE BufSerializer_push_avail(ser)
pull_avail_ser == IF IsFringe THEN Serializer_pull_avail(ser) ELSE BufSerializer_pull_avail(ser)
empty_avail_ser == IF IsFringe THEN Serializer_empty_avail(ser) ELSE BufSerializer_empty_avail(ser)
push_some_ser == IF IsFringe THEN Serializer_push_some(ser) ELSE BufSerializer_push_some(ser)
pull_some_ser == IF IsFringe THEN Serializer_pull_some(ser) ELSE BufSerializer_pull_some(ser)
empty_some_ser == IF IsFringe THEN Serializer_empty_some(ser) ELSE BufSerializer_empty_some(ser)
push_ser(T, t) == IF IsFringe THEN Serializer_push(ser, T, t) ELSE BufSerializer_push(ser, T, t)
pull_ser == IF IsFringe THEN Serializer_pull(ser) ELSE BufSerializer_pull(ser)
empty_ser == IF IsFringe THEN Serializer_empty(ser) ELSE BufSerializer_empty(ser)
drop_ser == IF IsFringe THEN Serializer_drop(ser) ELSE BufSerializer_drop(ser)

push_avail_des == IF IsFringe THEN Deserializer_push_avail(des) ELSE BufDeserializer_push_avail(des)
pull_avail_des == IF IsFringe THEN Deserializer_pull_avail(des) ELSE BufDeserializer_pull_avail(des)
empty_avail_des == IF IsFringe THEN Deserializer_empty_avail(des) ELSE BufDeserializer_empty_avail(des)
push_some_des == IF IsFringe THEN Deserializer_push_some(des) ELSE BufDeserializer_push_some(des)
empty_some_des == IF IsFringe THEN Deserializer_empty_some(des) ELSE BufDeserializer_empty_some(des)
pull_pin_des(T) == IF IsFringe THEN Deserializer_pull_pin(des, T) ELSE BufDeserializer_pull_pin(des, T)
pull_some_des(s) == IF IsFringe THEN Deserializer_pull_some(s) ELSE BufDeserializer_pull_some(s)
pull_des(s, T) == IF IsFringe THEN Deserializer_pull(s, T) ELSE BufDeserializer_pull(s, T)
push_des(x) == IF IsFringe THEN Deserializer_push(des, x) ELSE BufDeserializer_push(des, x)
empty_des == IF IsFringe THEN Deserializer_empty(des) ELSE BufDeserializer_empty(des)
drop_des == IF IsFringe THEN Deserializer_drop(des) ELSE BufDeserializer_drop(des)

-----------------------------------------------------------------------------
(* The harness: the tests of lib.rs *)

\* What a call returned: Some (and, for a pull, the byte or value) or None.
Ret(op, some, r) == [op |-> op, some |-> some, ret |-> r]

\* The bytes the deserializer test puts on the pipe for one value: its encoding,
\* a single 0 for the unit value; behind the length where the backend frames.
Frame(val) ==
    IF IsFringe
    THEN IF Encode(val.t, val.v) = <<>> THEN <<0>> ELSE Encode(val.t, val.v)
    ELSE BufSerializer_push(BufSerializer_new, val.t, val.v).st.buffer

\* The front of the tests' queue: the next value the Deserializer is to return.
HasFront == Len(claimed) < Len(sent)
Front == sent[Len(claimed) + 1]

\* No message in flight between the driver and the coroutine.
NoMsg == Msg("none", 0)

\* No call in progress: the driver runs, the coroutine, if there is one, is
\* suspended.
HIdle ==
    [phase |-> "idle", op |-> "none", T |-> "none", x |-> 0, k |-> 0,
     driver |-> "running", co |-> "suspended", chan |-> NoMsg, msg |-> NoMsg,
     inst |-> NoInner, recv |-> 0]

\* The three Serializers as constructed, nothing pushed and nothing pulled.
PNew ==
    [lib |-> Serializer_new, fringe |-> Serializer_new, buffer |-> BufSerializer_new,
     sent |-> <<>>, out_lib |-> <<>>, out_fringe |-> <<>>, out_buffer |-> <<>>,
     nf |-> 0, nb |-> 0, fault |-> "none",
     last |-> [op |-> "new", lib |-> Ret("new", FALSE, NoByte),
               fringe |-> Ret("new", FALSE, NoByte), buffer |-> Ret("new", FALSE, NoByte)]]

\* The pipes are used until they go out of scope, which they do together.
Live(pipe) == fault = "none" /\ dropped = {}
Droppable(pipe) == fault = "none" /\ pipe \notin dropped

Init ==
    /\ backend \in {"fringe", "buffer"}
    /\ scenario \in {"ser", "des", "both"}
    /\ ser = IF backend = "fringe" THEN Serializer_new ELSE BufSerializer_new
    /\ des = IF backend = "fringe" THEN Deserializer_new ELSE BufDeserializer_new
    /\ fault = "none"
    /\ dropped = {}
    /\ last = Ret("new", FALSE, NoByte)
    /\ sent = <<>>
    /\ emitted = <<>>
    /\ wire = <<>>
    /\ fed = <<>>
    /\ pinned = "none"
    /\ claimed = <<>>
    /\ stats = [ser_stacks |-> 0, des_stacks |-> 0, yielded |-> 0, emptied |-> FALSE,
                corrupt |-> FALSE, misframed |-> FALSE]
    /\ sends = <<>>
    /\ hand = HIdle
    /\ pair = PNew

\* serializer.push(): None, or Some(push) and push(val).
SerPush(val) ==
    /\ scenario \in {"ser", "both"} /\ Live("ser")
    /\ Len(sent) < MaxValues
    /\ IF push_some_ser
       THEN \E r \in {push_ser(val.t, val.v)} :
                /\ ser' = r.st
                /\ fault' = r.fault
                /\ last' = Ret("ser.push", TRUE, NoByte)
                /\ sends' = r.msgs
                /\ sent' = Append(sent, val)
                /\ stats' = [stats EXCEPT !.ser_stacks = @ + r.alloc,
                                          !.yielded = @ + r.yielded]
       ELSE /\ last' = Ret("ser.push", FALSE, NoByte)
            /\ sends' = <<>>
            /\ UNCHANGED <<ser, fault, sent, stats>>
    /\ UNCHANGED <<pair, hand, backend, scenario, des, dropped, emitted, wire, fed, pinned, claimed>>

\* serializer.pull(): None, or Some(pull) and pull().
SerPull ==
    /\ scenario \in {"ser", "both"} /\ Live("ser")
    /\ Len(wire) < MaxWire
    /\ IF pull_some_ser
       THEN \E r \in {pull_ser} :
                /\ ser' = r.st
                /\ fault' = r.fault
                /\ last' = Ret("ser.pull", TRUE, r.ret)
                /\ sends' = r.msgs
                /\ emitted' = Append(emitted, r.ret)
                /\ wire' = IF scenario = "both" THEN Append(wire, r.ret) ELSE wire
                /\ stats' = [stats EXCEPT !.yielded = @ + r.yielded]
       ELSE /\ last' = Ret("ser.pull", FALSE, NoByte)
            /\ sends' = <<>>
            /\ UNCHANGED <<ser, fault, emitted, wire, stats>>
    /\ UNCHANGED <<pair, hand, backend, scenario, des, dropped, sent, fed, pinned, claimed>>

\* serializer.empty(): None, or Some(empty) and empty(); the test's queue of
\* expected bytes is dropped with it.
SerEmpty ==
    /\ scenario = "ser" /\ Live("ser")
    /\ IF empty_some_ser
       THEN \E r \in {empty_ser} :
                /\ ser' = r.st
                /\ fault' = r.fault
                /\ last' = Ret("ser.empty", TRUE, NoByte)
                /\ sends' = r.msgs
                /\ sent' = <<>>
                /\ emitted' = <<>>
                /\ stats' = [stats EXCEPT !.yielded = 0, !.emptied = TRUE]
       ELSE /\ last' = Ret("ser.empty", FALSE, NoByte)
            /\ sends' = <<>>
            /\ UNCHANGED <<ser, fault, sent, emitted, stats>>
    /\ UNCHANGED <<pair, hand, backend, scenario, des, dropped, wire, fed, pinned, claimed>>

\* The Serializer goes out of scope.
SerDrop ==
    /\ scenario \in {"ser", "both"} /\ Droppable("ser")
    /\ \E r \in {drop_ser} :
           /\ ser' = r.st
           /\ fault' = r.fault
           /\ \E unwind \in BOOLEAN :
                  sends' = IF r.fault = "Serializer::drop" /\ ~unwind
                           THEN <<>> ELSE r.msgs
    /\ dropped' = dropped \cup {"ser"}
    /\ last' = Ret("ser.drop", FALSE, NoByte)
    /\ UNCHANGED <<pair, hand, backend, scenario, des, sent, emitted, wire, fed, pinned, claimed, stats>>

\* serializer.push_avail(), pull_avail(), empty_avail(): &self, no assignment.
SerPushAvail ==
    /\ scenario \in {"ser", "both"} /\ Live("ser")
    /\ last' = Ret("ser.push_avail", push_avail_ser, NoByte)
    /\ sends' = <<>>
    /\ UNCHANGED <<pair, hand, backend, scenario, ser, des, fault, dropped, sent, emitted, wire,
                   fed, pinned, claimed, stats>>

SerPullAvail ==
    /\ scenario \in {"ser", "both"} /\ Live("ser")
    /\ last' = Ret("ser.pull_avail", pull_avail_ser, NoByte)
    /\ sends' = <<>>
    /\ UNCHANGED <<pair, hand, backend, scenario, ser, des, fault, dropped, sent, emitted, wire,
                   fed, pinned, claimed, stats>>

SerEmptyAvail ==
    /\ scenario \in {"ser", "both"} /\ Live("ser")
    /\ last' = Ret("ser.empty_avail", empty_avail_ser, NoByte)
    /\ sends' = <<>>
    /\ UNCHANGED <<pair, hand, backend, scenario, ser, des, fault, dropped, sent, emitted, wire,
                   fed, pinned, claimed, stats>>

\* The deserializer test serializes a value straight onto the pipe.
Produce(val) ==
    /\ scenario = "des" /\ Live("des")
    /\ Len(sent) < MaxValues
    /\ Len(wire) < MaxWire
    /\ sent' = Append(sent, val)
    /\ wire' = wire \o Frame(val)
    /\ last' = Ret("produce", FALSE, NoByte)
    /\ sends' = <<>>
    /\ UNCHANGED <<pair, hand, backend, scenario, ser, des, fault, dropped, emitted, fed, pinned,
                   claimed, stats>>
\* The deserializer test serializes a value onto the pipe and expects a value
\* of another type T there, as the first of a run: the frame pushed is not one
\* of the type pulled.
ProduceOther(val, T) ==
    /\ backend = "buffer" /\ scenario = "des" /\ Live("des")
    /\ T # val.t
    /\ sent = <<>> /\ wire = <<>> /\ pinned = "none"
    /\ sent' = Append(sent, [t |-> T, v |-> val.v])
    /\ wire' = Frame(val)
    /\ last' = Ret("produce_other", FALSE, NoByte)
    /\ sends' = <<>>
    /\ stats' = [stats EXCEPT !.misframed = TRUE]
    /\ UNCHANGED <<pair, hand, backend, scenario, ser, des, fault, dropped, emitted, fed, pinned,
                   claimed>>

\* deserializer.pull::<T>() for the type T of the queue's front: None, or
\* Some(pull) and pull().
DesPull ==
    /\ scenario \in {"des", "both"} /\ Live("des")
    /\ HasFront
    /\ \E T \in {Front.t} : \E pin \in {pull_pin_des(T)} :
           IF pin.fault # "none"
           THEN /\ des' = pin.st
                /\ fault' = pin.fault
                /\ last' = Ret("des.pull", FALSE, 0)
                /\ sends' = pin.msgs
                /\ UNCHANGED <<fed, pinned, claimed, stats>>
           ELSE IF pull_some_des(pin.st)
           THEN \E r \in {pull_des(pin.st, T)} :
                    /\ des' = r.st
                    /\ fault' = r.fault
                    /\ last' = Ret("des.pull", TRUE, r.ret)
                    /\ sends' = pin.msgs \o r.msgs
                    /\ claimed' = Append(claimed, [t |-> T, v |-> r.ret])
                    /\ fed' = <<>>
                    /\ pinned' = "none"
                    /\ stats' = [stats EXCEPT !.des_stacks = @ + pin.alloc]
           ELSE /\ des' = pin.st
                /\ last' = Ret("des.pull", FALSE, 0)
                /\ sends' = pin.msgs
                /\ pinned' = IF pinned = "none" THEN T ELSE pinned
                /\ stats' = [stats EXCEPT !.des_stacks = @ + pin.alloc]
                /\ UNCHANGED <<fault, fed, claimed>>
    /\ UNCHANGED <<pair, hand, backend, scenario, ser, dropped, sent, emitted, wire>>

\* deserializer.pull::<U>() for a type U other than the one pinned, while the
\* pinned value is neither claimed nor discarded: a panic, None, or Some(pull)
\* and pull().
DesPullOther(U) ==
    /\ scenario \in {"des", "both"} /\ Live("des")
    /\ pinned # "none" /\ U # pinned
    /\ \E pin \in {pull_pin_des(U)} :
           IF pin.fault # "none"
           THEN /\ des' = pin.st
                /\ fault' = pin.fault
                /\ last' = Ret("des.pull_other", FALSE, 0)
                /\ sends' = pin.msgs
                /\ UNCHANGED <<fed, pinned, claimed>>
           ELSE IF pull_some_des(pin.st)
           THEN \E r \in {pull_des(pin.st, U)} :
                    /\ des' = r.st
                    /\ fault' = r.fault
                    /\ last' = Ret("des.pull_other", TRUE, r.ret)
                    /\ sends' = pin.msgs \o r.msgs
                    /\ claimed' = IF r.fault = "none"
                                  THEN Append(claimed, [t |-> U, v |-> r.ret])
                                  ELSE claimed
                    /\ fed' = IF r.fault = "none" THEN <<>> ELSE fed
                    /\ pinned' = IF r.fault = "none" THEN "none" ELSE pinned
           ELSE /\ des' = pin.st
                /\ last' = Ret("des.pull_other", FALSE, 0)
                /\ sends' = pin.msgs
                /\ UNCHANGED <<fault, fed, pinned, claimed>>
    /\ UNCHANGED <<pair, hand, backend, scenario, ser, dropped, sent, emitted, wire, stats>>

\* deserializer.push() with a byte waiting on the pipe: None, or Some(push) and
\* push(byte).
DesPush ==
    /\ scenario \in {"des", "both"} /\ Live("des")
    /\ wire # <<>>
    /\ IF push_some_des
       THEN \E r \in {push_des(Head(wire))} :
                /\ des' = r.st
                /\ fault' = r.fault
                /\ last' = Ret("des.push", TRUE, 0)
                /\ sends' = r.msgs
                /\ wire' = Tail(wire)
                /\ fed' = Append(fed, Head(wire))
       ELSE /\ last' = Ret("des.push", FALSE, 0)
            /\ sends' = <<>>
            /\ UNCHANGED <<des, fault, wire, fed>>
    /\ UNCHANGED <<pair, hand, backend, scenario, ser, dropped, sent, emitted, pinned, claimed, stats>>

\* deserializer.push() where the sentinel of a unit value is due, with a byte b
\* that is not the 0 waiting on the pipe: None, or Some(push) and push(b).
DesPushOther(b) ==
    /\ scenario = "des" /\ Live("des")
    /\ wire # <<>> /\ HasFront
    /\ pinned = "Unit" /\ Front.t = "Unit" /\ ~stats.misframed
    /\ Len(fed) = Len(Frame(Front)) - 1
    /\ IF push_some_des
       THEN \E r \in {push_des(b)} :
                /\ des' = r.st
                /\ fault' = r.fault
                /\ last' = Ret("des.push_other", TRUE, 0)
                /\ sends' = r.msgs
                /\ wire' = Tail(wire)
                /\ fed' = Append(fed, b)
                /\ stats' = [stats EXCEPT !.corrupt = TRUE]
       ELSE /\ last' = Ret("des.push_other", FALSE, 0)
            /\ sends' = <<>>
            /\ UNCHANGED <<des, fault, wire, fed, stats>>
    /\ UNCHANGED <<pair, hand, backend, scenario, ser, dropped, sent, emitted, pinned, claimed>>

\* deserializer.empty(): None, or Some(empty) and empty(); the rest of the
\* test's pipe and queue is dropped with the value.
DesEmpty ==
    /\ scenario = "des" /\ Live("des")
    /\ IF empty_some_des
       THEN \E r \in {empty_des} :
                /\ des' = r.st
                /\ fault' = r.fault
                /\ last' = Ret("des.empty", TRUE, 0)
                /\ sends' = r.msgs
                /\ sent' = <<>>
                /\ claimed' = <<>>
                /\ wire' = <<>>
                /\ fed' = <<>>
                /\ pinned' = "none"
                /\ stats' = [stats EXCEPT !.emptied = TRUE, !.corrupt = FALSE,
                                          !.misframed = FALSE]
       ELSE /\ last' = Ret("des.empty", FALSE, 0)
            /\ sends' = <<>>
            /\ UNCHANGED <<des, fault, sent, claimed, wire, fed, pinned, stats>>
    /\ UNCHANGED <<pair, hand, backend, scenario, ser, dropped, emitted>>

\* The Deserializer goes out of scope.
DesDrop ==
    /\ scenario \in {"des", "both"} /\ Droppable("des")
    /\ \E r \in {drop_des} :
           /\ des' = r.st
           /\ fault' = r.fault
           /\ \E unwind \in BOOLEAN :
                  sends' = IF r.fault = "Deserializer::drop" /\ ~unwind
                           THEN <<>> ELSE r.msgs
    /\ dropped' = dropped \cup {"des"}
    /\ last' = Ret("des.drop", FALSE, 0)
    /\ UNCHANGED <<pair, hand, backend, scenario, ser, sent, emitted, wire, fed, pinned, claimed, stats>>

\* deserializer.push_avail(), pull_avail(), empty_avail(): &self, no assignment.
DesPushAvail ==
    /\ scenario \in {"des", "both"} /\ Live("des")
    /\ last' = Ret("des.push_avail", push_avail_des, 0)
    /\ sends' = <<>>
    /\ UNCHANGED <<pair, hand, backend, scenario, ser, des, fault, dropped, sent, emitted, wire,
                   fed, pinned, claimed, stats>>

DesPullAvail ==
    /\ scenario \in {"des", "both"} /\ Live("des")
    /\ last' = Ret("des.pull_avail", pull_avail_des, 0)
    /\ sends' = <<>>
    /\ UNCHANGED <<pair, hand, backend, scenario, ser, des, fault, dropped, sent, emitted, wire,
                   fed, pinned, claimed, stats>>

DesEmptyAvail ==
    /\ scenario \in {"des", "both"} /\ Live("des")
    /\ last' = Ret("des.empty_avail", empty_avail_des, 0)
    /\ sends' = <<>>
    /\ UNCHANGED <<pair, hand, backend, scenario, ser, des, fault, dropped, sent, emitted, wire,
                   fed, pinned, claimed, stats>>

Next ==
    \/ \E val \in Values : SerPush(val)
    \/ SerPull
    \/ SerEmpty
    \/ SerDrop
    \/ SerPushAvail
    \/ SerPullAvail
    \/ SerEmptyAvail
    \/ \E val \in Values : Produce(val)
    \/ \E val \in Values : \E T \in Types : ProduceOther(val, T)
    \/ DesPull
    \/ \E U \in Types : DesPullOther(U)
    \/ DesPush
    \/ \E b \in OtherBytes : DesPushOther(b)
    \/ DesEmpty
    \/ DesDrop
    \/ DesPushAvail
    \/ DesPullAvail
    \/ DesEmptyAvail

Spec == Init /\ [][Next]_vars

-----------------------------------------------------------------------------
(* The Suspendable backend resume by resume: the driver (the caller inside a
   public method) and the coroutine as two processes *)

\* The pipe a public method belongs to.
HSide(op) == IF op \in {"ser.push", "ser.pull", "ser.empty", "ser.drop"} THEN "ser" ELSE "des"

\* Deserializer::pull::<T>() and, where it returns Some, the call of the closure.
HDesPull(T) ==
    LET pin == Deserializer_pull_pin(des, T)
    IN  IF pin.fault # "none" \/ ~Deserializer_pull_some(pin.st)
        THEN pin
        ELSE LET r == Deserializer_pull(pin.st, T)
             IN  ResM(r.st, r.fault, r.ret, pin.alloc, 0, pin.msgs \o r.msgs)

\* The public method in progress run to its end on the struct it was called on:
\* the resumes it makes, in order, and what it leaves.
HRes ==
    CASE hand.op = "ser.push"  -> Serializer_push(ser, hand.T, hand.x)
      [] hand.op = "ser.pull"  -> Serializer_pull(ser)
      [] hand.op = "ser.empty" -> Serializer_empty(ser)
      [] hand.op = "ser.drop"  -> Serializer_drop(ser)
      [] hand.op = "des.pull"  -> HDesPull(hand.T)
      [] hand.op = "des.push"  -> Deserializer_push(des, hand.x)
      [] hand.op = "des.empty" -> Deserializer_empty(des)
      [] OTHER                 -> Deserializer_drop(des)

\* Whether the method returns Some, so that its closure is called.
HSome(op) ==
    CASE op = "ser.push"  -> Serializer_push_some(ser)
      [] op = "ser.pull"  -> Serializer_pull_some(ser)
      [] op = "ser.empty" -> Serializer_empty_some(ser)
      [] op = "des.push"  -> Deserializer_push_some(des)
      [] op = "des.empty" -> Deserializer_empty_some(des)
      [] OTHER            -> TRUE

\* The bytes pushed into the Deserializer.
HBytes == {0, 1, 2}

\* The arguments a call of op can have: a type and a value, or a byte.
HArgs(op) ==
    CASE op = "ser.push" -> {<<val.t, val.v>> : val \in Values}
      [] op = "des.pull" -> {<<T, 0>> : T \in Types}
      [] op = "des.push" -> {<<"none", b>> : b \in HBytes}
      [] OTHER           -> {<<"none", 0>>}

HOps == {"ser.push", "ser.pull", "ser.empty", "ser.drop",
         "des.pull", "des.push", "des.empty", "des.drop"}

\* Only the Suspendable backend has a coroutine.
HInit == Init /\ backend = "fringe" /\ scenario = "both"

\* The driver enters a public method that is available; the drop of a pipe
\* that is at rest.
HBegin(op, T, x) ==
    /\ hand.phase = "idle"
    /\ fault = "none" /\ HSide(op) \notin dropped
    /\ HSome(op)
    /\ op = "ser.drop" => Serializer_push_some(ser)
    /\ op = "des.drop" => ~Deserializer_empty_some(des)
    /\ hand' = [HIdle EXCEPT !.phase = "call", !.op = op, !.T = T, !.x = x,
                             !.inst = IF HSide(op) = "ser"
                                      THEN ser.serializer ELSE des.deserializer]
    /\ UNCHANGED <<pair, backend, scenario, ser, des, fault, dropped, last, sent, emitted,
                   wire, fed, pinned, claimed, stats, sends>>

\* Mutant of HResume: the driver sends the message and goes on without waiting
\* for the coroutine to suspend, as a sender to a thread would.
HResume_no_wait ==
    /\ hand.phase = "call" /\ hand.driver = "running"
    /\ \E plan \in {HRes.msgs} :
           /\ hand.k < Len(plan)
           /\ \E m \in {plan[hand.k + 1]} :
                  hand' = [hand EXCEPT
                      !.k = hand.k + 1,
                      !.chan = Msg(m.kind, IF m.kind = "New" THEN hand.x ELSE 0),
                      !.inst = IF m.pc # "unstarted" THEN hand.inst
                               ELSE IF m.to = "ser" THEN SerializerInner_new(hand.T)
                               ELSE DeserializerInner_new(hand.T),
                      !.co = "running"]
    /\ UNCHANGED <<pair, backend, scenario, ser, des, fault, dropped, last, sent, emitted,
                   wire, fed, pinned, claimed, stats, sends>>

\* Generator::resume(msg): the driver hands over the next message of the
\* method and waits; the coroutine runs.  A message for a coroutine that has not
\* run yet goes to the instance the method has just created.
HResume ==
    /\ hand.phase = "call" /\ hand.driver = "running"
    /\ \E plan \in {HRes.msgs} :
           /\ hand.k < Len(plan)
           /\ \E m \in {plan[hand.k + 1]} :
                  hand' = [hand EXCEPT
                      !.k = hand.k + 1,
                      !.chan = Msg(m.kind, IF m.kind = "New" THEN hand.x ELSE 0),
                      !.inst = IF m.pc # "unstarted" THEN hand.inst
                               ELSE IF m.to = "ser" THEN SerializerInner_new(hand.T)
                               ELSE DeserializerInner_new(hand.T),
                      !.driver = "waiting",
                      !.co = "running"]
    /\ UNCHANGED <<pair, backend, scenario, ser, des, fault, dropped, last, sent, emitted,
                   wire, fed, pinned, claimed, stats, sends>>

\* The coroutine, started or resumed, takes the message: the argument of its
\* function or the value of its yielder.suspend(..).
HReceive ==
    /\ hand.co = "running" /\ hand.chan # NoMsg
    /\ hand' = [hand EXCEPT !.msg = hand.chan, !.chan = NoMsg, !.recv = hand.recv + 1]
    /\ UNCHANGED <<pair, backend, scenario, ser, des, fault, dropped, last, sent, emitted,
                   wire, fed, pinned, claimed, stats, sends>>

\* The coroutine runs on the message up to its next yielder.suspend(..), to its
\* return or to a panic, and the driver's resume returns.
HSuspend ==
    /\ hand.co = "running" /\ hand.chan = NoMsg
    /\ \E step \in {IF HSide(hand.op) = "ser"
                      THEN SerResume(hand.inst, hand.msg)
                      ELSE DesResume(hand.inst, hand.msg)} :
           hand' = [hand EXCEPT !.inst = step.co,
                                !.msg = NoMsg,
                                !.co = IF step.out.tag = "panic" THEN "panicked"
                                       ELSE IF step.out.tag = "finished" THEN "returned"
                                       ELSE "suspended",
                                !.driver = "running"]
    /\ UNCHANGED <<pair, backend, scenario, ser, des, fault, dropped, last, sent, emitted,
                   wire, fed, pinned, claimed, stats, sends>>

\* The method returns (or panics) after its last resume.
HReturn ==
    /\ hand.phase = "call" /\ hand.driver = "running"
    /\ \E r \in {HRes} :
           /\ hand.k = Len(r.msgs)
           /\ ser' = IF HSide(hand.op) = "ser" THEN r.st ELSE ser
           /\ des' = IF HSide(hand.op) = "des" THEN r.st ELSE des
           /\ fault' = r.fault
           /\ last' = Ret(hand.op, TRUE, r.ret)
           /\ sends' = r.msgs
    /\ dropped' = IF hand.op \in {"ser.drop", "des.drop"}
                  THEN dropped \cup {HSide(hand.op)} ELSE dropped
    /\ hand' = HIdle
    /\ UNCHANGED <<pair, backend, scenario, sent, emitted, wire, fed, pinned, claimed, stats>>

HNext ==
    \/ \E op \in HOps : \E a \in HArgs(op) : HBegin(op, a[1], a[2])
    \/ HResume
    \/ HReceive
    \/ HSuspend
    \/ HReturn

SpecHandoff == HInit /\ [][HNext]_vars

-----------------------------------------------------------------------------
(* The Serializers of lib.rs, fringe.rs and buffer.rs side by side, driven
   with the same values *)

\* A call that was not made, and the first panic of a set of calls.
NoCall == Ret("none", FALSE, NoByte)
FirstFault(fs) == IF \A i \in 1..Len(fs) : fs[i] = "none" THEN "none"
                  ELSE fs[CHOOSE i \in 1..Len(fs) :
                              fs[i] # "none" /\ \A j \in 1..(i - 1) : fs[j] = "none"]

\* A Serializer as it is, where its call returned None.
Kept(s) == Res(s, "none", NoByte, 0, 0)

PInit == Init /\ backend = "fringe" /\ scenario = "ser"

\* push() on each of the three; where all three return Some the value is
\* pushed into all, otherwise the closures are dropped uncalled.
PPush(val) ==
    /\ pair.fault = "none"
    /\ Len(pair.sent) < MaxValues
    /\ \E sl \in {LibSerializer_push_some(pair.lib)} :
       \E sf \in {Serializer_push_some(pair.fringe)} :
       \E sb \in {BufSerializer_push_some(pair.buffer)} :
           IF sl /\ sf /\ sb
           THEN \E rl \in {LibSerializer_push(pair.lib, val.t, val.v)} :
                \E rf \in {Serializer_push(pair.fringe, val.t, val.v)} :
                \E rb \in {BufSerializer_push(pair.buffer, val.t, val.v)} :
                    pair' = [pair EXCEPT
                        !.lib = rl.st, !.fringe = rf.st, !.buffer = rb.st,
                        !.sent = Append(pair.sent, val),
                        !.nf = 0, !.nb = 0,
                        !.fault = FirstFault(<<rl.fault, rf.fault, rb.fault>>),
                        !.last = [op |-> "push", lib |-> Ret("push", TRUE, NoByte),
                                  fringe |-> Ret("push", TRUE, NoByte),
                                  buffer |-> Ret("push", TRUE, NoByte)]]
           ELSE pair' = [pair EXCEPT
                        !.last = [op |-> "push_declined", lib |-> Ret("push", sl, NoByte),
                                  fringe |-> Ret("push", sf, NoByte),
                                  buffer |-> Ret("push", sb, NoByte)]]
    /\ UNCHANGED <<backend, scenario, ser, des, fault, dropped, last, sent, emitted, wire,
                   fed, pinned, claimed, stats, sends, hand>>

\* pull() on the Serializer of lib.rs and on the one of fringe.rs, each called
\* where it returns Some.
PPull ==
    /\ pair.fault = "none"
    /\ \E sl \in {LibSerializer_pull_some(pair.lib)} :
       \E sf \in {Serializer_pull_some(pair.fringe)} :
       \E rl \in {IF sl THEN LibSerializer_pull(pair.lib) ELSE Kept(pair.lib)} :
       \E rf \in {IF sf THEN Serializer_pull(pair.fringe) ELSE Kept(pair.fringe)} :
           pair' = [pair EXCEPT
               !.lib = rl.st, !.fringe = rf.st,
               !.out_lib = IF sl THEN Append(pair.out_lib, rl.ret) ELSE pair.out_lib,
               !.out_fringe = IF sf THEN Append(pair.out_fringe, rf.ret)
                              ELSE pair.out_fringe,
               !.nf = IF sf THEN pair.nf + 1 ELSE pair.nf,
               !.fault = FirstFault(<<rl.fault, rf.fault>>),
               !.last = [op |-> "pull", lib |-> Ret("pull", sl, rl.ret),
                         fringe |-> Ret("pull", sf, rf.ret), buffer |-> NoCall]]
    /\ UNCHANGED <<backend, scenario, ser, des, fault, dropped, last, sent, emitted, wire,
                   fed, pinned, claimed, stats, sends, hand>>

\* pull() on the Serializer of buffer.rs, called where it returns Some.
PPullBuffer ==
    /\ pair.fault = "none"
    /\ \E sb \in {BufSerializer_pull_some(pair.buffer)} :
       \E rb \in {IF sb THEN BufSerializer_pull(pair.buffer) ELSE Kept(pair.buffer)} :
           pair' = [pair EXCEPT
               !.buffer = rb.st,
               !.out_buffer = IF sb THEN Append(pair.out_buffer, rb.ret)
                              ELSE pair.out_buffer,
               !.nb = IF sb THEN pair.nb + 1 ELSE pair.nb,
               !.fault = rb.fault,
               !.last = [op |-> "pull_buffer", lib |-> NoCall, fringe |-> NoCall,
                         buffer |-> Ret("pull", sb, rb.ret)]]
    /\ UNCHANGED <<backend, scenario, ser, des, fault, dropped, last, sent, emitted, wire,
                   fed, pinned, claimed, stats, sends, hand>>

\* empty() on each of the three, each called where it returns Some; what was
\* pushed and pulled is forgotten with it.
PEmpty ==
    /\ pair.fault = "none"
    /\ \E sl \in {LibSerializer_empty_some(pair.lib)} :
       \E sf \in {Serializer_empty_some(pair.fringe)} :
       \E sb \in {BufSerializer_empty_some(pair.buffer)} :
       \E rl \in {IF sl THEN LibSerializer_empty(pair.lib) ELSE Kept(pair.lib)} :
       \E rf \in {IF sf THEN Serializer_empty(pair.fringe) ELSE Kept(pair.fringe)} :
       \E rb \in {IF sb THEN BufSerializer_empty(pair.buffer) ELSE Kept(pair.buffer)} :
           pair' = [pair EXCEPT
               !.lib = rl.st, !.fringe = rf.st, !.buffer = rb.st,
               !.sent = <<>>, !.out_lib = <<>>, !.out_fringe = <<>>, !.out_buffer = <<>>,
               !.nf = 0, !.nb = 0,
               !.fault = FirstFault(<<rl.fault, rf.fault, rb.fault>>),
               !.last = [op |-> "empty", lib |-> Ret("empty", sl, NoByte),
                         fringe |-> Ret("empty", sf, NoByte),
                         buffer |-> Ret("empty", sb, NoByte)]]
    /\ UNCHANGED <<backend, scenario, ser, des, fault, dropped, last, sent, emitted, wire,
                   fed, pinned, claimed, stats, sends, hand>>

PNext ==
    \/ \E val \in Values : PPush(val)
    \/ PPull
    \/ PPullBuffer
    \/ PEmpty

SpecPair == PInit /\ [][PNext]_vars

-----------------------------------------------------------------------------
(* What the claims are stated with *)

IsPrefix(a, b) == Len(a) <= Len(b) /\ a = SubSeq(b, 1, Len(a))

\* The codec encoding of a value with a zero-byte encoding replaced by the
\* single byte 0, and the concatenation of these over a sequence of values.
Payload(val) == IF Encode(val.t, val.v) = <<>> THEN <<0>> ELSE Encode(val.t, val.v)

RECURSIVE Payloads(_)
Payloads(vals) == IF vals = <<>> THEN <<>> ELSE Payload(Head(vals)) \o Payloads(Tail(vals))

\* max(1, n) for the n bytes of a value's encoding, and its sum over values.
ByteCount(val) == IF Len(Encode(val.t, val.v)) = 0 THEN 1 ELSE Len(Encode(val.t, val.v))

RECURSIVE ByteCounts(_)
ByteCounts(vals) == IF vals = <<>> THEN 0 ELSE ByteCount(Head(vals)) + ByteCounts(Tail(vals))

\* The bytes of all accepted values in the backend's framing.
RECURSIVE Frames(_)
Frames(vals) == IF vals = <<>> THEN <<>> ELSE Frame(Head(vals)) \o Frames(Tail(vals))

Suspendable(sc) == backend = "fringe" /\ scenario \in sc
Running == fault = "none" /\ dropped = {}
\* The bytes pushed for the current value are those of its frame.
ValidBytes == ~stats.corrupt /\ ~stats.misframed
\* The last call was not a pull naming a type other than the pinned one, and
\* the bytes pushed are valid.
WellTyped == last.op # "des.pull_other" /\ ValidBytes
AllButLast == <<backend, scenario, ser, des, fault, dropped, sent, emitted, wire,
                fed, pinned, claimed, stats>>

-----------------------------------------------------------------------------
(* C1 *)

\* C1: Round-trip (Suspendable backend): with a Serializer feeding a Deserializer
\* whose pulls name the type of the oldest unclaimed value, under every
\* interleaving of push and pull attempts and every sequence of value types, the
\* values the Deserializer returns are, in order, the values pushed; the value is
\* claimable once all its bytes have been pushed on, and no call panics.
C1_RoundTrip ==
    Suspendable({"both"}) =>
        /\ IsPrefix(claimed, sent)
        /\ (dropped = {} /\ WellTyped) => fault = "none"
        /\ (Running /\ pinned # "none" /\ fed = Payload(Front)) => pull_avail_des

C1_Witness ==
    /\ Suspendable({"both"})
    /\ claimed = <<[t |-> "U16", v |-> 513], [t |-> "Unit", v |-> 0],
                   [t |-> "OptU8", v |-> 200]>>
    /\ last = Ret("des.pull", TRUE, 200)

-----------------------------------------------------------------------------
(* C2 *)

\* C2: Serializer output order (Suspendable backend): the bytes returned by the
\* successful pulls are a prefix of the concatenated encodings of the accepted
\* values (a zero-byte encoding replaced by the byte 0), and are all of it
\* whenever the next push is accepted: nothing lost, duplicated or reordered.
C2_OutputOrder ==
    Suspendable({"ser", "both"}) =>
        /\ IsPrefix(emitted, Payloads(sent))
        /\ (fault = "none" /\ push_some_ser) => emitted = Payloads(sent)

C2_Witness ==
    /\ Suspendable({"ser"})
    /\ sent = <<[t |-> "OptU8", v |-> 200], [t |-> "Unit", v |-> 0],
                [t |-> "U16", v |-> 513]>>
    /\ emitted = <<1, 200, 0, 1, 2>>

-----------------------------------------------------------------------------
(* C3 *)

\* C3: Zero-size value: after the unit value is pushed the Serializer holds
\* exactly one byte, 0, and is Idle once it is pulled; a Deserializer pinned to
\* the unit type has the value claimable exactly once the single byte 0 has been
\* pushed, and the claim returns the unit value and leaves it Idle.
C3_ZeroSize ==
    LET k == Len(sent)
    IN  /\ (Suspendable({"ser", "both"}) /\ dropped = {} /\ WellTyped /\ k > 0
              /\ sent[k].t = "Unit") =>
               /\ fault = "none"
               /\ IF Len(emitted) < ByteCounts(sent)
                  THEN /\ pull_some_ser /\ ~push_some_ser
                       /\ ser.pull = 0
                       /\ Len(emitted) = ByteCounts(sent) - 1
                  ELSE /\ push_some_ser /\ ~pull_some_ser
                       /\ emitted[Len(emitted)] = 0
        /\ (Suspendable({"des", "both"}) /\ Running /\ pinned = "Unit") =>
               /\ pull_avail_des <=> fed = <<0>>
               /\ push_some_des <=> fed = <<>>
        /\ (Suspendable({"des", "both"}) /\ Running /\ last.op = "des.pull" /\ last.some
              /\ claimed[Len(claimed)].t = "Unit") =>
               /\ claimed[Len(claimed)] = [t |-> "Unit", v |-> 0]
               /\ ~pull_avail_des /\ ~push_some_des

C3_Witness ==
    /\ Suspendable({"both"})
    /\ sent = <<[t |-> "Unit", v |-> 0]>>
    /\ emitted = <<0>>
    /\ claimed = sent
    /\ last = Ret("des.pull", TRUE, 0)

-----------------------------------------------------------------------------
(* C4 *)

\* C4: Byte-count conservation (Suspendable backend): the Serializer emits
\* exactly max(1, n) bytes for a value of n encoded bytes; a Deserializer pinned to
\* the value's type becomes pull-available exactly when the max(1, n)-th byte is
\* pushed, and from then on, and after the claim until a type is pinned again,
\* push returns none, so it never takes a byte of the next value.
C4_ByteCount ==
    /\ (Suspendable({"ser", "both"}) /\ fault = "none") =>
           IF push_some_ser
           THEN Len(emitted) = ByteCounts(sent)
           ELSE /\ Len(emitted) < ByteCounts(sent)
                /\ Len(emitted) >= ByteCounts(SubSeq(sent, 1, Len(sent) - 1))
    /\ (Suspendable({"des", "both"}) /\ Running) =>
           IF pinned = "none"
           THEN fed = <<>> /\ ~pull_avail_des /\ ~push_some_des
           ELSE /\ Len(fed) <= ByteCount(Front)
                /\ pull_avail_des <=> Len(fed) = ByteCount(Front)
                /\ push_some_des <=> Len(fed) < ByteCount(Front)

C4_Witness ==
    /\ Suspendable({"des"})
    /\ HasFront /\ Front = [t |-> "U16", v |-> 513]
    /\ fed = <<1, 2>>
    /\ wire # <<>>
    /\ last = Ret("des.push", FALSE, 0)

-----------------------------------------------------------------------------
(* C5 *)

\* C5: Bounded memory (Suspendable Serializer): the bytes the encode coroutine
\* has yielded and pull has not yet returned are at most one, the look-ahead
\* byte, and there is one exactly while pull is available.
C5_BoundedMemory ==
    Suspendable({"ser", "both"}) =>
        /\ stats.yielded - Len(emitted) \in {0, 1}
        /\ fault = "none" => (stats.yielded - Len(emitted) = 1 <=> pull_some_ser)

C5_Witness ==
    /\ Suspendable({"ser"})
    /\ sent = <<[t |-> "U16", v |-> 513]>>
    /\ emitted = <<1>>
    /\ stats.yielded = 2

-----------------------------------------------------------------------------
(* C6 *)

\* C6: Serializer availability invariant: between operations exactly one of push
\* and pull is available, the look-ahead slot holds a byte iff the pipe is not
\* idle, and pull is available exactly while an accepted value has bytes that
\* were not pulled; a new Serializer has push available.
C6_SerAvailability ==
    (scenario \in {"ser", "both"} /\ fault = "none") =>
        /\ push_some_ser <=> ~pull_some_ser
        /\ IsFringe => (ser.pull # NoByte <=> ~ser.done)
        /\ pull_some_ser <=> Len(emitted) < Len(Frames(sent))
        /\ last.op = "new" => (push_some_ser /\ ~pull_some_ser)

C6_Witness ==
    /\ Suspendable({"ser"})
    /\ last = Ret("ser.push", FALSE, NoByte)
    /\ Len(emitted) = 1
    /\ pull_some_ser

-----------------------------------------------------------------------------
(* C7 *)

\* C7: Deserializer push availability: push is available iff a type is pinned
\* and the pinned value is not complete and awaiting its claim; so it is
\* unavailable on a new Deserializer, and again after a claim or a discard, until
\* the next pull.
C7_DesPushAvailability ==
    (scenario \in {"des", "both"} /\ Running /\ ValidBytes) =>
        /\ push_some_des <=> (pinned # "none" /\ fed # Frame(Front))
        /\ last.op = "new" => ~push_some_des

C7_Witness ==
    /\ Suspendable({"des"})
    /\ last = Ret("des.push", FALSE, 0)
    /\ pinned = "none"
    /\ Len(claimed) = 1
    /\ wire # <<>>

-----------------------------------------------------------------------------
(* C8 *)

C8_State ==
    (scenario \in {"des", "both"} /\ Running /\ ValidBytes) =>
        /\ pull_avail_des <=> (pinned # "none" /\ fed = Frame(Front))
        /\ (last.op = "des.pull" /\ last.some) =>
               /\ claimed[Len(claimed)] = sent[Len(claimed)]
               /\ pinned = "none"
               /\ ~pull_avail_des /\ ~push_some_des

C8_Step ==
    (last.op = "des.pull" /\ last.some /\ last'.op = "des.pull") =>
        (~last'.some /\ claimed' = claimed)

\* C8: Deserializer pull availability and single consumption: pull returns a
\* callable exactly when every byte of the pinned value has been pushed; the
\* claim returns that value and leaves the pipe Idle, and a pull attempted
\* directly after a claim returns none.
C8_DesPull == [](C8_State) /\ [][C8_Step]_vars

C8_Witness ==
    /\ Suspendable({"des"})
    /\ last = Ret("des.pull", FALSE, 0)
    /\ Len(claimed) = 1
    /\ HasFront /\ pinned = Front.t
    /\ fed = <<>>

-----------------------------------------------------------------------------
(* C9 *)

SerQueries == {"ser.push_avail", "ser.pull_avail", "ser.empty_avail"}
DesQueries == {"des.push_avail", "des.pull_avail", "des.empty_avail"}

C9_Step ==
    /\ last'.op \in SerQueries \cup DesQueries => AllButLast' = AllButLast
    /\ last'.op = "ser.push_avail"  => last'.some = push_some_ser
    /\ last'.op = "ser.pull_avail"  => last'.some = pull_some_ser
    /\ last'.op = "ser.empty_avail" => last'.some = empty_some_ser
    /\ last'.op = "des.push_avail"  => last'.some = push_some_des
    /\ last'.op = "des.pull_avail"  => last'.some = pull_some_des(des)
    /\ last'.op = "des.empty_avail" => last'.some = empty_some_des
    /\ last'.op = "ser.push"  => last'.some = push_avail_ser
    /\ last'.op = "ser.pull"  => last'.some = pull_avail_ser
    /\ last'.op = "ser.empty" => last'.some = empty_avail_ser
    /\ last'.op = "des.push"  => last'.some = push_avail_des
    /\ (last'.op = "des.pull" /\ fault' = "none") => last'.some = pull_avail_des
    /\ last'.op = "des.empty" => last'.some = empty_avail_des

\* C9: Availability queries: each of push_avail, pull_avail and empty_avail of
\* the Serializer and of the Deserializer, in both backends, leaves the whole
\* state unchanged, and its result in a state is whether the corresponding push,
\* pull or empty call made in that state returns a callable.
C9_Queries == [][C9_Step]_vars

C9_Witness ==
    /\ backend = "buffer"
    /\ last = Ret("des.pull_avail", TRUE, 0)
    /\ Len(claimed) = 1

-----------------------------------------------------------------------------
(* C10 *)

\* A pipe at rest: no accepted value has bytes left in the Serializer; no type
\* is pinned in the Deserializer.
SerAtRest == Len(emitted) = Len(Frames(sent))
DesAtRest == pinned = "none"

C10_Step ==
    /\ (last'.op = "ser.empty" /\ SerAtRest) =>
           (~last'.some /\ AllButLast' = AllButLast)
    /\ (last'.op = "des.empty" /\ DesAtRest) =>
           (~last'.some /\ AllButLast' = AllButLast)
    /\ (last.op = "ser.empty" /\ last.some /\ last'.op = "ser.empty") =>
           (~last'.some /\ AllButLast' = AllButLast)
    /\ (last.op = "des.empty" /\ last.some /\ last'.op = "des.empty") =>
           (~last'.some /\ AllButLast' = AllButLast)

\* C10: Idempotent idle: empty() on a Serializer or Deserializer that is at rest
\* returns none and changes nothing, and an empty() made directly after an
\* empty() that was performed returns none.
C10_IdempotentIdle == [][C10_Step]_vars

C10_Witness ==
    /\ Suspendable({"ser"})
    /\ last = Ret("ser.empty", FALSE, NoByte)
    /\ sent = <<>>
    /\ stats.ser_stacks = 1

-----------------------------------------------------------------------------
(* C11 *)

\* C11: empty() returns a non-idle pipe to rest: directly after a performed
\* empty() the pipe is Idle (only the starting call is available) and the
\* coroutine waits at its loop head for a new value; and once a pipe has been
\* emptied, the values pushed afterwards, of the same or of another type, come
\* out right: the Serializer's bytes are those of the values pushed since, the
\* Deserializer takes exactly the bytes of the value its pull names and returns
\* that value, and no call panics.
C11_EmptyToRest ==
    /\ (scenario = "ser" /\ last.op = "ser.empty" /\ last.some) =>
           /\ fault = "none"
           /\ push_some_ser /\ ~pull_some_ser /\ ~empty_some_ser
           /\ IsFringe => /\ ser.done /\ ser.pull = NoByte
                          /\ ser.serializer.pc = "top"
    /\ (scenario = "des" /\ last.op = "des.empty" /\ last.some) =>
           /\ fault = "none"
           /\ ~push_some_des /\ ~pull_avail_des /\ ~empty_some_des
           /\ IsFringe => /\ des.done /\ ~des.mid /\ ~des.pending
                          /\ des.deserializer.pc \in {"eof", "claimed"}
    /\ (stats.emptied /\ dropped = {} /\ WellTyped) => fault = "none"
    /\ (stats.emptied /\ scenario = "ser") =>
           /\ IsPrefix(emitted, Frames(sent))
           /\ (fault = "none" /\ push_some_ser) => emitted = Frames(sent)
    /\ (stats.emptied /\ scenario = "des") =>
           /\ ValidBytes => IsPrefix(claimed, sent)
           /\ (Running /\ ValidBytes /\ pinned # "none") =>
                  /\ pull_avail_des <=> fed = Frame(Front)
                  /\ push_some_des <=> fed # Frame(Front)

C11_Witness ==
    /\ Suspendable({"des"})
    /\ stats.emptied
    /\ stats.des_stacks = 1
    /\ claimed = <<[t |-> "Unit", v |-> 0], [t |-> "U16", v |-> 513]>>
    /\ last = Ret("des.pull", TRUE, 513)

-----------------------------------------------------------------------------
(* C12 *)

\* C12: Fatal-on-abandon, Serializer: dropping a Serializer panics if and only
\* if it is not idle or its look-ahead slot holds a byte, which is exactly when
\* a pushed value has bytes that were neither pulled nor emptied; dropping a new
\* Serializer or one whose last value was fully pulled does not panic.
C12_SerDropFatal ==
    (scenario \in {"ser", "both"} /\ last.op = "ser.drop") =>
        /\ fault \in {"none", "Serializer::drop"}
        /\ fault = "Serializer::drop" <=> Len(emitted) < Len(Frames(sent))
        /\ IsFringe => (fault = "Serializer::drop" <=> (~ser.done \/ ser.pull # NoByte))
        /\ ~IsFringe => (fault = "Serializer::drop" <=> ser.some)

C12_Witness ==
    /\ Suspendable({"ser"})
    /\ last.op = "ser.drop"
    /\ fault = "Serializer::drop"
    /\ sent = <<[t |-> "U16", v |-> 513]>>
    /\ emitted = <<1>>

-----------------------------------------------------------------------------
(* C13 *)

\* C13 as stated: dropping the Deserializer at any point after pull has pinned a
\* type and before the value is claimed or discarded is fatal.
C13_DropFatalOncePinned ==
    (Suspendable({"des", "both"}) /\ last.op = "des.drop" /\ pinned # "none") =>
        fault # "none"

\* C13: Fatal-on-abandon, Deserializer (Suspendable backend), amended: dropping
\* the Deserializer panics if and only if at least one byte has been pushed for
\* a value that was neither claimed nor discarded (mid or pending); dropping it
\* Idle, or with a type pinned and no byte pushed yet, does not panic.
C13_DesDropFatal ==
    (Suspendable({"des", "both"}) /\ last.op = "des.drop") =>
        /\ fault \in {"none", "Deserializer::drop"}
        /\ fault = "Deserializer::drop" <=> (pinned # "none" /\ fed # <<>>)
        /\ fault = "Deserializer::drop" <=> (des.mid \/ des.pending)

C13_Witness ==
    /\ Suspendable({"des"})
    /\ last.op = "des.drop"
    /\ fault = "Deserializer::drop"
    /\ pinned = "U16"
    /\ fed = <<1>>

-----------------------------------------------------------------------------
(* C14 *)

C14_Step ==
    /\ (last'.op = "ser.drop" /\ fault' # "none") => empty_some_ser
    /\ (last'.op = "des.drop" /\ fault' # "none") => empty_some_des
    /\ (last.op = "ser.empty" /\ last.some /\ last'.op = "ser.drop") => fault' = "none"
    /\ (last.op = "des.empty" /\ last.some /\ last'.op = "des.drop") => fault' = "none"

\* C14: empty-then-drop is always safe: for the Serializer and the Deserializer
\* of both backends, a drop panics only in a state in which empty() returns a
\* callable, and a drop made directly after a performed empty() does not panic.
C14_EmptyThenDrop == [][C14_Step]_vars

C14_Witness ==
    /\ backend = "buffer" /\ scenario = "des"
    /\ stats.emptied
    /\ sent = <<>>
    /\ last.op = "des.drop"
    /\ fault = "none"

-----------------------------------------------------------------------------
(* C15 *)

\* C15: Type reuse and switching: on one Serializer feeding one Deserializer,
\* for every sequence of values of any mix of types (the zero-size type
\* included), every value is accepted once the one before it is pulled out, the
\* backend installed is the one of the current value's type, the values returned
\* are the values pushed, in order, and no call panics.
C15_TypeSwitching ==
    scenario = "both" =>
        /\ (dropped = {} /\ WellTyped) => fault = "none"
        /\ IsPrefix(emitted, Frames(sent))
        /\ IsPrefix(claimed, sent)
        /\ (Running /\ emitted = Frames(sent)) => push_some_ser
        /\ (Running /\ pinned # "none" /\ fed = Frame(Front)) => pull_avail_des
        /\ (IsFringe /\ Running /\ sent # <<>>) => ser.serializer.type = sent[Len(sent)].t
        /\ (IsFringe /\ Running /\ pinned # "none") => des.deserializer.type = pinned

C15_Witness ==
    /\ Suspendable({"both"})
    /\ claimed = <<[t |-> "Unit", v |-> 0], [t |-> "U8", v |-> 200],
                   [t |-> "Unit", v |-> 0]>>
    /\ last = Ret("des.pull", TRUE, 0)
    /\ stats.ser_stacks = 1 /\ stats.des_stacks = 1

-----------------------------------------------------------------------------
(* C16 *)

\* C16: Wrong-type pull (Suspendable Deserializer): a pull::<U>() made while a
\* value of another pinned type T is in progress, whether zero, some or all of
\* its bytes have been pushed, ends in a panic: it is never answered with none
\* and never returns a value of U.
C16_WrongTypePullFatal ==
    (Suspendable({"des", "both"}) /\ last.op = "des.pull_other") => fault # "none"

-----------------------------------------------------------------------------
(* C17 *)

\* C17 as stated: between operations exactly one of the three flags idle (done),
\* mid and pending holds.
C17_ExactlyOneFlag ==
    (Suspendable({"des", "both"}) /\ Running) =>
        Cardinality({f \in {"done", "mid", "pending"} : des[f]}) = 1

\* C17: Deserializer state invariant (Suspendable backend), amended: between
\* operations at most one of the flags idle (done), mid and pending holds, and
\* none of them holds exactly when a type is pinned and no byte of the value has
\* been pushed yet; done holds while no type is pinned, mid while some and not
\* all bytes of the pinned value are pushed, pending once all are.
C17_AtMostOneFlag ==
    (Suspendable({"des", "both"}) /\ Running) =>
        /\ Cardinality({f \in {"done", "mid", "pending"} : des[f]}) <= 1
        /\ (~des.done /\ ~des.mid /\ ~des.pending) <=> (pinned # "none" /\ fed = <<>>)
        /\ des.done <=> pinned = "none"
        /\ des.mid <=> (pinned # "none" /\ fed # <<>> /\ fed # Frame(Front))
        /\ des.pending <=> (pinned # "none" /\ fed = Frame(Front))

C17_Witness ==
    /\ Suspendable({"des"})
    /\ pinned = "U8" /\ fed = <<>>
    /\ ~des.done /\ ~des.mid /\ ~des.pending
    /\ wire = <<200>>
    /\ last = Ret("des.pull", FALSE, 0)

-----------------------------------------------------------------------------
(* C18 *)

\* The W-byte little-endian encoding of a length below 256, and the bytes the
\* claim gives for one value and for a sequence of values.
LengthPrefix(n) == [i \in 1..WordSize |-> IF i = 1 THEN n ELSE 0]
EagerFrame(val) == LengthPrefix(ByteCount(val)) \o Payload(val)

RECURSIVE EagerFrames(_)
EagerFrames(vals) ==
    IF vals = <<>> THEN <<>> ELSE EagerFrame(Head(vals)) \o EagerFrames(Tail(vals))

\* C18: Eager wire format: for a value of n encoded bytes the Eager Serializer
\* emits exactly W + max(1, n) bytes: the W-byte encoding of the length
\* max(1, n), never 0, then the n payload bytes, or the byte 0 if n = 0; it is
\* Idle after the last of them is pulled and not before; for the u8 value 200 the
\* bytes are the prefix 1 and the byte 200, and a matching Deserializer returns
\* the value pushed.
C18_EagerWireFormat ==
    (backend = "buffer" /\ scenario \in {"ser", "both"}) =>
        /\ IsPrefix(emitted, EagerFrames(sent))
        /\ Len(EagerFrames(sent)) = WordSize * Len(sent) + ByteCounts(sent)
        /\ fault = "none" => (push_some_ser <=> emitted = EagerFrames(sent))
        /\ (fault = "none" /\ ser.some) =>
               /\ Len(ser.buffer) > WordSize
               /\ DecodeWord(SubSeq(ser.buffer, 1, WordSize)) = Len(ser.buffer) - WordSize
        /\ sent = <<[t |-> "U8", v |-> 200]>> =>
               IsPrefix(emitted, <<1, 0, 0, 0, 0, 0, 0, 0, 200>>)
        /\ (scenario = "both" /\ last.op = "des.pull" /\ last.some) =>
               /\ fault = "none"
               /\ claimed[Len(claimed)] = sent[Len(claimed)]

C18_Witness ==
    /\ backend = "buffer" /\ scenario = "both"
    /\ sent = <<[t |-> "U8", v |-> 200]>>
    /\ emitted = <<1, 0, 0, 0, 0, 0, 0, 0, 200>>
    /\ claimed = sent
    /\ last = Ret("des.pull", TRUE, 200)

-----------------------------------------------------------------------------
(* C19 *)

\* The bytes a Serializer is to emit for a sequence of accepted values.
SerBytes(vals) == IF IsFringe THEN Payloads(vals) ELSE EagerFrames(vals)

\* C19: Serializer empty availability: after any sequence of push and pull
\* attempts, empty() returns a callable (and empty_avail is true) if and only if
\* at least one byte of an accepted value has not been pulled; an empty() that
\* returned none found every emitted byte pulled, or nothing pushed.
C19_SerEmptyAvailability ==
    (scenario \in {"ser", "both"} /\ Running) =>
        /\ empty_some_ser <=> Len(emitted) < Len(SerBytes(sent))
        /\ empty_avail_ser <=> Len(emitted) < Len(SerBytes(sent))
        /\ (last.op = "ser.empty" /\ ~last.some) => emitted = SerBytes(sent)

C19_Witness ==
    /\ Suspendable({"ser"})
    /\ sent = <<[t |-> "U16", v |-> 513]>>
    /\ emitted = <<1, 2>>
    /\ last = Ret("ser.empty", FALSE, NoByte)

-----------------------------------------------------------------------------
(* C20 *)

\* The panics of the encode side other than the assertion of Serializer::drop.
SerProtocolFaults ==
    {"SerializerInner::into_stack", "SerializerInner::push", "SerializerInner::next",
     "Serializer::push unwrap", "SerializerInner::drop"}

\* C20: Encode-side protocol safety: under every sequence of Serializer push,
\* pull, empty and drop operations, the encode coroutine is waiting for a value
\* (at its loop head, where New and Kill are sent) exactly while the pipe is
\* idle and inside a value (where Next is sent) exactly while it is not; none of
\* its panic branches is reached, the assertion in SerializerInner::push and the
\* unwrap in Serializer::push never fail, and a drop of an idle pipe does not
\* panic.
C20_EncodeProtocol ==
    Suspendable({"ser", "both"}) =>
        /\ fault \notin SerProtocolFaults
        /\ (Running /\ ser.serializer # NoInner) =>
               /\ ser.serializer.pc \in {"top", "write"}
               /\ ser.done <=> ser.serializer.pc = "top"
               /\ ser.pull # NoByte <=> ser.serializer.pc = "write"
        /\ (Running /\ ser.serializer = NoInner) => (ser.done /\ sent = <<>>)
        /\ (last.op = "ser.drop" /\ emitted = Payloads(sent)) => fault = "none"

C20_Witness ==
    /\ Suspendable({"ser"})
    /\ stats.emptied
    /\ sent = <<[t |-> "Unit", v |-> 0], [t |-> "OptU8", v |-> 200]>>
    /\ emitted = <<0, 1, 200>>
    /\ last.op = "ser.drop"
    /\ fault = "none"


-----------------------------------------------------------------------------
(* C21 *)

\* The messages of the last call that went to the decode coroutine.
DesSends == {sends[i] : i \in {j \in DOMAIN sends : sends[j].to = "des"}}

\* The suspensions of the decode coroutine between two values: the loop head.
DesLoopHeads == {"unstarted", "eof", "claimed"}

\* The bytes of the current value the decode coroutine had consumed when the
\* message m reached it: none at the loop head, the Reader's count while it
\* reads or waits for the sentinel, the whole value once it is decoded.
DesConsumed(m) ==
    IF m.pc \in DesLoopHeads THEN 0
    ELSE IF m.pc \in {"read", "sentinel"} THEN m.count
    ELSE IF m.count = 0 THEN 1 ELSE m.count

\* The panics of the decode side that a message out of place ends in.
DesProtocolFaults ==
    {"DeserializerInner::into_stack", "DeserializerInner::drop",
     "DeserializerInner::done", "DeserializerInner::next",
     "DeserializerInner::empty", "DeserializerInner::retrieve",
     "DeserializerInner::discard", "Deserializer::pull assert"}

\* C21: decode-side protocol safety: as long as the Deserializer is given the
\* bytes of valid encodings and is not dropped while empty() is available,
\* Empty reaches the decode coroutine only after it consumed at least one byte
\* of the current value, Kill only when it consumed none; the coroutine never
\* panics and no assertion of DeserializerInner or of the pinning pull fails.
C21_DecodeProtocol ==
    (Suspendable({"des", "both"}) /\ ValidBytes /\ fault # "Deserializer::drop") =>
        /\ \A m \in DesSends :
               /\ m.kind = "Empty" => DesConsumed(m) > 0
               /\ m.kind = "Kill" => DesConsumed(m) = 0
               /\ m.pc \notin {"panicked", "returned"}
        /\ fault \notin DesProtocolFaults
        /\ "des" \notin dropped => des.deserializer.type = "none"
                                    \/ des.deserializer.pc \notin {"panicked", "returned"}

C21_Witness ==
    /\ Suspendable({"des"})
    /\ last = Ret("des.empty", TRUE, 0)
    /\ fault = "none"
    /\ \E m \in DesSends : m.kind = "Empty" /\ m.pc = "read" /\ m.count = 1
    /\ des.deserializer.pc = "eof"

-----------------------------------------------------------------------------
(* C22 *)

\* The resumes of the last call that were the first of a coroutine instance of
\* the side: the instance was created by the call.
NewInstances(side) ==
    {i \in DOMAIN sends : sends[i].to = side /\ sends[i].pc = "unstarted"}

\* The instance created at sends[i] took over the stack of the instance the
\* same call tore down just before.
OnReleasedStack(i) ==
    i > 1 /\ sends[i - 1].kind = "Kill" /\ sends[i - 1].to = sends[i].to

C22_State ==
    Suspendable({"ser", "des", "both"}) =>
        /\ stats.ser_stacks \in {0, 1} /\ stats.des_stacks \in {0, 1}
        /\ "ser" \notin dropped =>
               (stats.ser_stacks = 1 <=> ser.serializer.type # "none")
        /\ "des" \notin dropped =>
               (stats.des_stacks = 1 <=> des.deserializer.type # "none")
        /\ Cardinality(NewInstances("ser")) <= 1
        /\ Cardinality(NewInstances("des")) <= 1

C22_Step ==
    (Suspendable({"ser", "des", "both"}) /\ fault' = "none") =>
        /\ stats'.ser_stacks = stats.ser_stacks +
               Cardinality({i \in NewInstances("ser")' : ~OnReleasedStack(i)'})
        /\ stats'.des_stacks = stats.des_stacks +
               Cardinality({i \in NewInstances("des")' : ~OnReleasedStack(i)'})
        /\ \A i \in NewInstances("ser")' :
               ~OnReleasedStack(i)' <=> ser.serializer.type = "none"
        /\ \A i \in NewInstances("des")' :
               ~OnReleasedStack(i)' <=> des.deserializer.type = "none"

\* C22: single stack allocation: a Suspendable Serializer or Deserializer
\* allocates a coroutine stack at most once, with the first push or pull that
\* installs a backend; every later instance is created right after the Kill
\* that released the stack of the instance it replaces, and a call creates at
\* most one instance, in place of the one installed.
C22_SingleStack == [](C22_State) /\ [][C22_Step]_vars

C22_Witness ==
    /\ Suspendable({"ser"})
    /\ last = Ret("ser.push", TRUE, NoByte)
    /\ fault = "none"
    /\ stats.ser_stacks = 1
    /\ \E i \in NewInstances("ser") : OnReleasedStack(i)

-----------------------------------------------------------------------------
(* C23 *)

\* The last call sent Kill to the side's coroutine.
Killed(side) == \E i \in DOMAIN sends : sends[i].to = side /\ sends[i].kind = "Kill"

\* The installed backend is the one of the value last pushed, or pinned, or
\* claimed.
C23_State ==
    (Suspendable({"ser", "des", "both"}) /\ Running) =>
        /\ sent # <<>> /\ scenario # "des" =>
               ser.serializer.type = sent[Len(sent)].t
        /\ pinned # "none" => des.deserializer.type = pinned
        /\ (pinned = "none" /\ claimed # <<>>) =>
               des.deserializer.type = claimed[Len(claimed)].t

C23_Step ==
    (Suspendable({"ser", "des", "both"}) /\ fault' = "none") =>
        /\ (last'.op = "ser.push" /\ last'.some) =>
               LET T == sent'[Len(sent')].t
               IN  /\ ser.serializer.type = T =>
                          (~Killed("ser")' /\ NewInstances("ser")' = {}
                           /\ sends'[1].kind = "New" /\ sends'[1].pc = "top")
                   /\ ser.serializer.type # T => NewInstances("ser")' # {}
                   /\ Killed("ser")' <=> ser.serializer.type \notin {"none", T}
        /\ (last'.op = "des.pull" /\ pinned = "none") =>
               LET T == Front.t
               IN  /\ des.deserializer.type = T =>
                          (~Killed("des")' /\ NewInstances("des")' = {}
                           /\ sends'[1].kind = "Next"
                           /\ sends'[1].pc \in {"eof", "claimed"})
                   /\ des.deserializer.type # T => NewInstances("des")' # {}
                   /\ Killed("des")' <=> des.deserializer.type \notin {"none", T}
        /\ last'.op \notin {"ser.push", "ser.drop"} =>
               (~Killed("ser")' /\ NewInstances("ser")' = {})
        /\ (last'.op \notin {"des.pull", "des.drop"}
            \/ (last'.op = "des.pull" /\ pinned # "none")) =>
               (~Killed("des")' /\ NewInstances("des")' = {})

\* C23: coroutine reuse across same-typed values: a push (pinning pull) of a
\* value of the installed type resumes the installed coroutine at its loop
\* head, with no Kill and no new instance, whether the previous value was
\* drained (claimed) or emptied; a new instance is created exactly when the type
\* differs from the installed one, and no other call but a drop sends Kill.
C23_CoroutineReuse == [](C23_State) /\ [][C23_Step]_vars

C23_Witness ==
    /\ Suspendable({"des"})
    /\ stats.emptied
    /\ last = Ret("des.pull", FALSE, 0)
    /\ claimed = <<>> /\ pinned = "U16" /\ fed = <<>>
    /\ sends = <<[to |-> "des", kind |-> "Next", pc |-> "eof", count |-> 1]>>

-----------------------------------------------------------------------------
(* C24 *)

\* The Kill messages of the last call.
Kills == {sends[i] : i \in {j \in DOMAIN sends : sends[j].kind = "Kill"}}

\* The coroutine that m reached was suspended between two values.
BetweenValues(m) ==
    IF m.to = "ser" THEN m.pc = "top" ELSE DesConsumed(m) = 0

\* C24: tear-down at rest points only: Kill is sent only by a push or pull that
\* changes the type and by a drop, it reaches the coroutine suspended between
\* two values, and the coroutine returns on it: no assertion of into_stack or
\* of the inner Drop fails.
C24_KillAtRest ==
    Suspendable({"ser", "des", "both"}) =>
        /\ Kills # {} => last.op \in {"ser.push", "des.pull", "ser.drop", "des.drop"}
        /\ \A m \in Kills : BetweenValues(m)
        /\ fault \notin {"SerializerInner::into_stack", "SerializerInner::drop",
                         "DeserializerInner::into_stack", "DeserializerInner::drop"}

\* The same with the drops of a pipe that holds a value left aside.
C24_ButAbandon ==
    fault \notin {"Serializer::drop", "Deserializer::drop"} => C24_KillAtRest

-----------------------------------------------------------------------------
(* C26 *)

\* The pulls performed for the value pushed last: every value before it was
\* drained in full before it was accepted.
PullsOfLast == Len(emitted) - ByteCounts(SubSeq(sent, 1, Len(sent) - 1))

C26_State ==
    (Suspendable({"ser", "both"}) /\ fault = "none" /\ sent # <<>>) =>
        LET n == ByteCount(sent[Len(sent)])
        IN  /\ PullsOfLast \in 0..n
            /\ PullsOfLast = n <=> push_some_ser
            /\ PullsOfLast < n <=> pull_some_ser
            /\ PullsOfLast = n =>
                   /\ ser.done /\ ser.pull = NoByte
                   /\ "ser" \notin dropped => ser.serializer.pc = "top"

C26_Step ==
    (Suspendable({"ser", "both"}) /\ last'.op = "ser.pull") =>
        IF pull_some_ser
        THEN /\ last'.some
             /\ emitted' = Append(emitted, last'.ret)
             /\ Len(sends') = 1 /\ sends'[1].kind = "Next"
             /\ ser'.done <=> PullsOfLast' = ByteCount(sent[Len(sent)])
        ELSE /\ ~last'.some
             /\ sends' = <<>>
             /\ AllButLast' = AllButLast

\* C26: drain termination: after the push of a value with an n-byte encoding
\* the Serializer is back to Idle after exactly max(1, n) performed pulls; each
\* pull resumes the coroutine once, the pull that returns the last byte finds
\* the value exhausted and makes push available, and a pull attempted in Idle
\* returns none, resumes nothing and changes nothing.
C26_DrainTermination == [](C26_State) /\ [][C26_Step]_vars

C26_Witness ==
    /\ Suspendable({"ser"})
    /\ last.op = "ser.pull" /\ last.some
    /\ Len(sent) = 1 /\ sent[1].t = "U16"
    /\ Len(emitted) = 2
    /\ push_some_ser /\ ~pull_some_ser

-----------------------------------------------------------------------------
(* C27 *)

\* The last call was a performed empty() of a Suspendable pipe.
Emptied(side) ==
    /\ backend = "fringe"
    /\ last.op = IF side = "ser" THEN "ser.empty" ELSE "des.empty"
    /\ last.some

\* C27 as stated: a performed empty() of a Suspendable pipe resumes the
\* coroutine with Kill and the coroutine function returns.
C27_EmptyByTerminate ==
    /\ Emptied("ser") => (Killed("ser") /\ ser.serializer.pc = "returned")
    /\ Emptied("des") => (Killed("des") /\ des.deserializer.pc = "returned")

\* C27, amended: cancellation by drain and interrupt: a performed empty() of a
\* Suspendable pipe never sends Kill. The Serializer resumes the encode
\* coroutine with Next until it yields no byte; the Deserializer resumes the
\* decode coroutine once, with Next to discard a complete value or with Empty
\* to interrupt a partial one. The coroutine stays installed, suspended at its
\* loop head, and the pipe is idle.
C27_EmptyByDrain ==
    /\ Emptied("ser") =>
           /\ fault = "none"
           /\ sends # <<>>
           /\ \A i \in DOMAIN sends : sends[i].to = "ser" /\ sends[i].kind = "Next"
           /\ \A i \in DOMAIN sends : sends[i].pc \in {"armed", "write"}
           /\ ser.serializer.pc = "top"
           /\ ser.done /\ ser.pull = NoByte
    /\ Emptied("des") =>
           /\ fault = "none"
           /\ Len(sends) = 1 /\ sends[1].to = "des"
           /\ \/ sends[1].kind = "Next" /\ sends[1].pc = "ready"
              \/ sends[1].kind = "Empty" /\ sends[1].pc = "read" /\ sends[1].count > 0
           /\ des.deserializer.pc = IF sends[1].kind = "Next" THEN "claimed" ELSE "eof"
           /\ des.done /\ ~des.mid /\ ~des.pending

C27_Witness ==
    /\ Emptied("ser")
    /\ Len(sends) = 2
    /\ sends[1].pc = "write" /\ sends[2].pc = "write"
    /\ ser.serializer.type = "U16"
    /\ ser.serializer.pc = "top"

-----------------------------------------------------------------------------
(* C28 *)

\* The bytes pushed since the pin make a value of type T complete: its
\* encoding, or the sentinel 0 where the encoding is empty.
Completes(T, bytes) ==
    IF DecodeStatus(T, <<>>) = "done"
    THEN bytes = <<0>>
    ELSE DecodeStatus(T, bytes) = "done"

\* Once a Deserializer was emptied, what it reports and holds is a function of
\* the type pinned since and the bytes pushed since the pin.
C28_DesState ==
    (Suspendable({"des"}) /\ stats.emptied /\ Running /\ pinned # "none") =>
        /\ des.pending <=> Completes(pinned, fed)
        /\ ~des.pending =>
               /\ des.deserializer.pc \in {"read", "sentinel"}
               /\ des.deserializer.got = fed
               /\ des.deserializer.count = Len(fed)
        /\ des.mid <=> (fed # <<>> /\ ~Completes(pinned, fed))

\* The value claimed is the decoding of those bytes; the byte a Serializer
\* hands out is the byte of the value pushed last, at the position of the pull.
C28_Step ==
    /\ (Suspendable({"des"}) /\ stats.emptied /\ last'.op = "des.pull" /\ last'.some) =>
           /\ fault' = "none"
           /\ last'.ret = DecodeValue(pinned, IF fed = <<0>> /\ pinned = "Unit"
                                               THEN <<>> ELSE fed)
    /\ (Suspendable({"ser"}) /\ stats.emptied /\ last'.op = "ser.pull" /\ last'.some) =>
           /\ fault' = "none"
           /\ last'.ret = Payload(sent[Len(sent)])[PullsOfLast + 1]
    /\ (Suspendable({"ser"}) /\ stats.emptied /\ last'.op = "ser.push" /\ last'.some) =>
           /\ fault' = "none"
           /\ ser'.pull = Payload(sent'[Len(sent')])[1]
           /\ ser'.serializer.val = sent'[Len(sent')].v

\* C28: no leak across empty(): after an emptied value, partial or complete,
\* the Deserializer reaches pending exactly when the bytes pushed since the
\* next pin complete a value of the pinned type, its coroutine holds those
\* bytes and no other, and the claim returns their decoding; the Serializer
\* hands out the bytes of the value pushed since, one per pull.  Both are
\* functions of what came after the empty(), so two runs that differ only
\* before it agree.
C28_NoLeakAcrossEmpty == [](C28_DesState) /\ [][C28_Step]_vars

C28_Witness ==
    /\ Suspendable({"des"})
    /\ stats.emptied
    /\ last = Ret("des.pull", TRUE, 513)
    /\ claimed = <<[t |-> "U16", v |-> 513]>>
    /\ sends = <<[to |-> "des", kind |-> "Next", pc |-> "ready", count |-> 2]>>

-----------------------------------------------------------------------------
(* C29 *)

\* C29 as stated: empty() is available from the moment pull has pinned a type
\* until the value is claimed or discarded.
C29_EmptyFromPin ==
    (Suspendable({"des", "both"}) /\ Running) =>
        (empty_some_des <=> pinned # "none")

\* C29, amended: Deserializer empty availability: empty() is available from
\* the first byte pushed for the pinned value until the value is claimed or
\* discarded (Mid: some bytes, not complete; Pending: complete), and
\* unavailable in Idle and between the pinning pull and the first byte.
C29_EmptyAvailability ==
    (Suspendable({"des", "both"}) /\ Running) =>
        /\ empty_some_des <=> (pinned # "none" /\ fed # <<>>)
        /\ empty_some_des <=> (des.mid \/ des.pending)
        /\ des.mid <=> (pinned # "none" /\ fed # <<>> /\ ~Completes(pinned, fed))
        /\ des.pending <=> (pinned # "none" /\ Completes(pinned, fed))
        /\ last.op \in {"new", "des.empty"} => ~empty_some_des
        /\ (last.op = "des.pull" /\ last.some) => ~empty_some_des

C29_Witness ==
    /\ Suspendable({"des"})
    /\ last = Ret("des.empty", FALSE, 0)
    /\ pinned = "U16" /\ fed = <<>>
    /\ wire # <<>>
    /\ ~des.done

-----------------------------------------------------------------------------
(* C30 *)

\* The type decodes from zero bytes.
ZeroSize(T) == DecodeStatus(T, <<>>) = "done"

\* C30 as stated: the push of a byte other than 0 for the sentinel is itself a
\* fatal assertion failure.
C30_FatalAtPush ==
    (last.op = "des.push_other" /\ last.some) => fault # "none"

C30_State ==
    /\ (scenario \in {"des", "both"} /\ Running /\ pinned # "none" /\ HasFront) =>
           /\ (ZeroSize(pinned) /\ Len(fed) < Len(Frame(Front))) => ~pull_avail_des
           /\ (ZeroSize(pinned) /\ ValidBytes /\ pull_avail_des) =>
                  fed[Len(fed)] = 0
           /\ (~ZeroSize(pinned) /\ ~stats.misframed) =>
                  /\ IsFringe => des.deserializer.pc # "sentinel"
                  /\ ~IsFringe => des.len \in {0, Len(Encode(Front.t, Front.v))}
                  /\ pull_avail_des =>
                         Len(fed) = Len(Encode(Front.t, Front.v))
                                    + (IF IsFringe THEN 0 ELSE WordSize)
    /\ (last.op = "des.push_other" /\ last.some) =>
           IF IsFringe
           THEN fault = "DeserializerInner::next"
           ELSE fault = "none" /\ pull_avail_des
    /\ (stats.corrupt /\ last.op = "des.pull") =>
           (last.some /\ fault = "Deserializer::pull sentinel")

C30_Step ==
    (stats.corrupt /\ last'.op = "des.pull") =>
        (~IsFringe /\ fault' = "Deserializer::pull sentinel")

\* C30, amended: sentinel check on the consumer side: a value of a type that
\* decodes from zero bytes is not claimable before its one byte is pushed, and
\* a byte other than 0 in its place ends in a fatal assertion failure and never
\* in a returned value: in the Suspendable backend at the push, in the eager
\* backend, which takes the byte, when the value is claimed. For a type that
\* decodes from one or more bytes no sentinel is expected or consumed.
C30_SentinelCheck == [](C30_State) /\ [][C30_Step]_vars

C30_Witness ==
    /\ backend = "buffer"
    /\ stats.corrupt
    /\ last.op = "des.pull" /\ last.some
    /\ fault = "Deserializer::pull sentinel"
    /\ Len(fed) = 0 /\ Len(sent) = 1

-----------------------------------------------------------------------------
(* C25 *)

\* The places a coroutine can be suspended at: yielder.suspend(..) in the
\* encode and in the decode function.
SerSuspensions == {"top", "armed", "write"}
DesSuspensions == {"read", "eof", "sentinel", "got", "ready", "claimed"}

\* The coroutine installed in a pipe that is not dropped, if any, is suspended.
InstalledSuspended ==
    /\ ("ser" \notin dropped /\ ser.serializer.type # "none") =>
           ser.serializer.pc \in SerSuspensions
    /\ ("des" \notin dropped /\ des.deserializer.type # "none") =>
           des.deserializer.pc \in DesSuspensions

-----------------------------------------------------------------------------
(* C31 *)

\* Probes the check makes between two pushed bytes.
MaxProbes == 3

\* DeserializerInner::done called n times in a row: the coroutine after the
\* calls, whether all of them returned, and whether any of them answered done.
RECURSIVE Probes(_, _)
Probes(co, n) ==
    IF n = 0 THEN Call(co, TRUE, FALSE)
    ELSE LET p == DeserializerInner_done(co)
             q == Probes(p.co, n - 1)
         IN  IF ~p.ok THEN Call(p.co, FALSE, FALSE)
             ELSE Call(q.co, q.ok, p.ret \/ q.ret)

\* The decode coroutine waits for a byte: in Reader::read or for the sentinel.
AwaitsByte(co) == co.type # "none" /\ co.pc \in {"read", "sentinel"}

\* Probes of a coroutine that waits for a byte are answered not-done and leave
\* it as it is, so that the byte pushed next has the effect it has without them;
\* between operations a value that is complete has been reported done.
C31_State ==
    (Suspendable({"des", "both"}) /\ Running) =>
        /\ AwaitsByte(des.deserializer) =>
               \A n \in 1..MaxProbes :
                   LET p == Probes(des.deserializer, n)
                   IN  /\ p.ok /\ ~p.ret
                       /\ p.co.count = des.deserializer.count
                       /\ p.co.got = des.deserializer.got
                       /\ p.co = des.deserializer
                       /\ \A b \in HBytes :
                              Deserializer_push([des EXCEPT !.deserializer = p.co], b)
                                  = Deserializer_push(des, b)
        /\ des.deserializer.type # "none" => des.deserializer.pc # "got"
        /\ des.pending <=> (des.deserializer.type # "none" /\ des.deserializer.pc = "ready")
        /\ (~des.done /\ ~des.pending) => AwaitsByte(des.deserializer)

\* The probe of a push is answered done exactly when the byte pushed completes
\* the value; the probe of a pinning pull is answered not-done; once a value is
\* reported done no probe is made until it is claimed or emptied.
C31_Step ==
    Suspendable({"des", "both"}) =>
        /\ (last'.op \in {"des.push", "des.push_other"} /\ last'.some /\ fault' = "none") =>
               /\ Len(sends') = 2
               /\ sends'[1].kind = "New" /\ sends'[1].pc \in {"read", "sentinel"}
               /\ sends'[2].kind = "Next"
               /\ ~des.pending
               /\ des'.pending <=> sends'[2].pc = "got"
               /\ des'.pending <=> Completes(pinned, fed')
               /\ ~des'.pending =>
                      /\ sends'[2].pc = "read"
                      /\ sends'[2].count = Len(fed')
                      /\ des'.deserializer.count = Len(fed')
                      /\ des'.deserializer.got = fed'
        /\ (last'.op = "des.pull" /\ ~last'.some /\ fault' = "none" /\ des.done) =>
               /\ sends'[Len(sends')].kind = "Next"
               /\ ~des'.pending
               /\ AwaitsByte(des'.deserializer)
               /\ des'.deserializer.count = 0
        /\ (des.pending /\ last'.op \in {"des.push", "des.push_other"}) =>
               (~last'.some /\ sends' = <<>> /\ des' = des)

\* C31: done-probe is side-effect free: a Next probe delivered while the decode
\* coroutine waits for a byte is answered not-done and changes neither the
\* count of bytes consumed nor the bytes decoded, so that any number of probes
\* between two pushed bytes leaves the value decoded and the bytes needed as
\* they are; the probe answers done once per value, directly after the byte
\* that completes it.
C31_ProbeSideEffectFree == [](C31_State) /\ [][C31_Step]_vars

C31_Witness ==
    /\ Suspendable({"des"})
    /\ pinned = "U16" /\ fed = <<1>>
    /\ last = Ret("des.push", TRUE, 0)
    /\ sends = <<[to |-> "des", kind |-> "New", pc |-> "read", count |-> 0],
                 [to |-> "des", kind |-> "Next", pc |-> "read", count |-> 1]>>
    /\ des.mid /\ ~des.pending
    /\ des.deserializer.count = 1 /\ des.deserializer.got = <<1>>

-----------------------------------------------------------------------------
(* C32 *)

Eager(sc) == backend = "buffer" /\ scenario \in sc

\* The length the first WordSize bytes pushed since the pin stand for.
PrefixOf(bytes) == DecodeWord(SubSeq(bytes, 1, WordSize))

\* With a type pinned the first WordSize bytes pushed are the length and are
\* kept out of the buffer, the bytes after them are the buffer; pull is
\* available exactly with the buffer at that length, push exactly otherwise;
\* with no type pinned there is nothing accumulated and neither is available.
C32_State ==
    (Eager({"des", "both"}) /\ Running) =>
        /\ (pinned = "none") <=> (des.deserializer = "none")
        /\ pinned = "none" =>
               /\ des.buffer = <<>> /\ des.len = 0
               /\ ~BufDeserializer_push_avail(des) /\ ~BufDeserializer_pull_avail(des)
               /\ ~BufDeserializer_push_some(des) /\ ~BufDeserializer_pull_some(des)
        /\ pinned # "none" =>
               /\ BufDeserializer_push_avail(des) # BufDeserializer_pull_avail(des)
               /\ BufDeserializer_push_some(des) # BufDeserializer_pull_some(des)
               /\ Len(fed) < WordSize =>
                      /\ des.len = 0 /\ des.buffer = fed
                      /\ ~BufDeserializer_pull_avail(des)
               /\ Len(fed) >= WordSize =>
                      /\ des.len = PrefixOf(fed) /\ des.len >= 1
                      /\ des.buffer = SubSeq(fed, WordSize + 1, Len(fed))
                      /\ Len(fed) <= WordSize + des.len
                      /\ BufDeserializer_pull_avail(des) <=> (Len(fed) = WordSize + des.len)

\* What the calls answer: push takes a byte until the buffer has reached the
\* length and returns None from then on; pull returns a closure only then.
C32_Step ==
    (Eager({"des", "both"}) /\ Running) =>
        /\ last'.op \in {"des.push", "des.push_other"} =>
               (last'.some <=>
                    /\ pinned # "none"
                    /\ (Len(fed) < WordSize \/ Len(fed) < WordSize + PrefixOf(fed)))
        /\ (last'.op = "des.pull" /\ fault' = "none") =>
               (last'.some <=>
                    (Len(fed) >= WordSize /\ Len(fed) = WordSize + PrefixOf(fed)))
        /\ (last'.op = "des.pull" /\ last'.some) =>
               (des' = BufDeserializer_new /\ fed' = <<>> /\ pinned' = "none")

\* C32: eager Deserializer accumulation: once a type is pinned the first
\* WordSize bytes pushed are taken as the length L and are not part of the
\* payload; pull becomes available exactly when L further bytes (L >= 1) are
\* accumulated, and from then on push returns none until the value is claimed
\* or emptied.  With a type pinned exactly one of push and pull is available,
\* with no type pinned neither is.
C32_EagerAccumulation == [](C32_State) /\ [][C32_Step]_vars

C32_Witness ==
    /\ Eager({"des"})
    /\ pinned = "U16"
    /\ Len(fed) = WordSize + 2 /\ des.len = 2 /\ des.buffer = <<1, 2>>
    /\ last = Ret("des.push", FALSE, 0)
    /\ wire # <<>>

-----------------------------------------------------------------------------
(* C33 *)

\* A pull naming another type than the pinned one has panicked on the
\* assertion of the pinned type, whatever was pushed.
C33_State ==
    (Eager({"des", "both"}) /\ last.op = "des.pull_other") =>
        /\ fault = "Deserializer::pull assert_eq"
        /\ ~last.some
        /\ des.deserializer = pinned

\* The pull made with no type pinned pins its type; the type stays pinned
\* until the claim or empty, which clear it with the length and the buffer.
C33_Step ==
    (Eager({"des", "both"}) /\ Running) =>
        /\ (des.deserializer = "none" /\ last'.op = "des.pull") =>
               /\ fault' = "none" /\ ~last'.some
               /\ des' = [des EXCEPT !.deserializer = Front.t]
               /\ pinned' = Front.t
        /\ (des.deserializer # "none" /\ fault' = "none" /\ "des" \notin dropped') =>
               IF last'.some /\ last'.op \in {"des.pull", "des.empty"}
               THEN des' = BufDeserializer_new
               ELSE des'.deserializer = des.deserializer
        /\ (des.deserializer # "none" /\ last'.op = "des.pull_other") =>
               fault' = "Deserializer::pull assert_eq"

\* C33: eager Deserializer type pinning: the first pull::<T>() after
\* construction, claim or empty pins T; every later pull::<U>() with another
\* type U, made before the value is claimed or emptied, fails with a fatal
\* assertion however many bytes have been pushed; a claim clears the pinned
\* type with the length and the buffer, so that the next pull may pin any type.
C33_EagerTypePinning == [](C33_State) /\ [][C33_Step]_vars

C33_Witness ==
    /\ Eager({"des"})
    /\ claimed = <<[t |-> "U8", v |-> 200]>>
    /\ pinned = "U16" /\ des.deserializer = "U16"
    /\ Len(fed) = WordSize + 1
    /\ last.op = "des.pull_other"
    /\ fault = "Deserializer::pull assert_eq"

-----------------------------------------------------------------------------
(* C34 *)

\* The panics of the claim closure: the codec's error, the sentinel that is
\* not 0, the length that is not the frame's.
ClaimPanics ==
    {"Deserializer::pull unwrap", "Deserializer::pull sentinel", "Deserializer::pull length"}

\* The claim of an eager Deserializer returns exactly when the codec, reading
\* the pinned type from the payload, consumes as many bytes as the frame's
\* length says, or none where the length is 1 and the byte is 0; it panics
\* otherwise; what it returns is a value whose encoding is the payload.
C34_Step ==
    (Eager({"des", "both"}) /\ Running /\ last'.op = "des.pull" /\ last'.some) =>
        LET count == BufRead(Front.t, des.buffer, 0)
            good  == \/ count = des.len
                     \/ count = 0 /\ des.len = 1 /\ des.buffer = <<0>>
        IN  /\ des.len >= 1 /\ Len(des.buffer) = des.len
            /\ des.deserializer = Front.t
            /\ (fault' = "none") <=> good
            /\ ~good => fault' \in ClaimPanics
            /\ fault' = "none" =>
                   /\ Payload([t |-> Front.t, v |-> last'.ret]) = des.buffer
                   /\ ByteCount([t |-> Front.t, v |-> last'.ret]) = des.len
                   /\ claimed' = Append(claimed, [t |-> Front.t, v |-> last'.ret])
            /\ des' = BufDeserializer_new

\* C34: eager claim checks the frame: when a value is claimed the number of
\* bytes the codec consumed from the payload equals the framed length L, or the
\* codec consumed none, L = 1 and the payload byte is 0; every other case is a
\* fatal failure, so a frame whose length does not match the encoding of the
\* pinned type is never returned as a value.
C34_EagerClaimChecksFrame == [][C34_Step]_vars

C34_Witness ==
    /\ Eager({"des"})
    /\ stats.misframed
    /\ sent = <<[t |-> "U8", v |-> 513]>>
    /\ wire = <<>>
    /\ last.op = "des.pull" /\ last.some
    /\ fault = "Deserializer::pull length"

-----------------------------------------------------------------------------
(* C35 *)

\* The bytes of an eager byte sequence that follow its length prefixes: after
\* WordSize bytes of length L the next L bytes, and so on.
RECURSIVE StripPrefixes(_)
StripPrefixes(bytes) ==
    IF Len(bytes) <= WordSize THEN <<>>
    ELSE LET L    == DecodeWord(SubSeq(bytes, 1, WordSize))
             rest == SubSeq(bytes, WordSize + 1, Len(bytes))
         IN  IF L = 0 THEN <<>>
             ELSE IF Len(rest) <= L THEN rest
             ELSE SubSeq(rest, 1, L) \o StripPrefixes(SubSeq(rest, L + 1, Len(rest)))

\* The bytes the eager Serializer has handed out of the value pushed last.
CurrentFrame == SubSeq(pair.out_buffer, Len(pair.out_buffer) - pair.nb + 1,
                       Len(pair.out_buffer))

\* The Serializers of fringe.rs and buffer.rs, which have taken the same values,
\* are idle.
FringeIdle == Serializer_push_some(pair.fringe)
BufferIdle == BufSerializer_push_some(pair.buffer)

\* C35: backend equivalence on the payload: the bytes the Eager Serializer
\* emits after each WordSize-byte length prefix are, byte for byte and in
\* number, the bytes the Suspendable Serializer emits for the same value, and
\* the prefix is that number; side by side on the same pushes the two are idle
\* after the same values.
C35_PayloadEquivalence ==
    /\ pair.fault = "none"
    /\ LET pb == StripPrefixes(pair.out_buffer)
       IN  /\ \A i \in 1..Len(pb) : i <= Len(pair.out_fringe) => pb[i] = pair.out_fringe[i]
           /\ (FringeIdle /\ BufferIdle) => pb = pair.out_fringe
    /\ pair.sent = <<>> => (FringeIdle /\ BufferIdle)
    /\ (pair.sent # <<>> /\ pair.nb < WordSize) => ~BufferIdle
    /\ (pair.sent # <<>> /\ pair.nb >= WordSize) =>
           LET L == DecodeWord(SubSeq(CurrentFrame, 1, WordSize))
           IN  /\ L >= 1
               /\ pair.nb <= WordSize + L /\ pair.nf <= L
               /\ FringeIdle <=> pair.nf = L
               /\ BufferIdle <=> pair.nb = WordSize + L
               /\ pair.nb - WordSize = pair.nf => (FringeIdle <=> BufferIdle)

C35_Witness ==
    /\ pair.sent = <<[t |-> "Unit", v |-> 0], [t |-> "U16", v |-> 513]>>
    /\ pair.out_fringe = <<0, 1, 2>>
    /\ Len(pair.out_buffer) = 2 * WordSize + 3
    /\ StripPrefixes(pair.out_buffer) = <<0, 1, 2>>
    /\ FringeIdle /\ BufferIdle
    /\ pair.last.op = "pull_buffer"

-----------------------------------------------------------------------------
(* C36 *)

\* C36: the two Suspendable Serializer variants are observationally
\* equivalent: after every push, pull and empty made on both, the variant of
\* lib.rs and the one of fringe.rs have returned the same Some or None and the
\* same bytes and answer every availability query alike; the branch of the
\* older push that sets done again is not taken: after a push the Serializer
\* is busy with a byte prefetched.
C36_VariantsEquivalent ==
    /\ pair.fault = "none"
    /\ pair.last.lib = pair.last.fringe
    /\ pair.out_lib = pair.out_fringe
    /\ LibSerializer_push_avail(pair.lib) = Serializer_push_avail(pair.fringe)
    /\ LibSerializer_pull_avail(pair.lib) = Serializer_pull_avail(pair.fringe)
    /\ LibSerializer_empty_avail(pair.lib) = Serializer_empty_avail(pair.fringe)
    /\ LibSerializer_push_some(pair.lib) = Serializer_push_some(pair.fringe)
    /\ LibSerializer_pull_some(pair.lib) = Serializer_pull_some(pair.fringe)
    /\ LibSerializer_empty_some(pair.lib) = Serializer_empty_some(pair.fringe)
    /\ pair.lib = pair.fringe
    /\ pair.last.op = "push" => (~pair.lib.done /\ pair.lib.pull # NoByte)

C36_Witness ==
    /\ pair.last.op = "push"
    /\ pair.sent = <<[t |-> "U8", v |-> 200], [t |-> "Unit", v |-> 0]>>
    /\ pair.out_lib = <<200>>
    /\ pair.lib.serializer.type = "Unit"
    /\ ~pair.lib.done /\ pair.lib.pull = 0
    /\ pair.fringe.pull = 0

-----------------------------------------------------------------------------
(* C37 *)

\* No two of the flags done, mid and pending hold, whether or not a call has
\* panicked.
C37_State ==
    Suspendable({"des", "both"}) =>
        /\ ~(des.done /\ des.mid)
        /\ ~(des.done /\ des.pending)
        /\ ~(des.mid /\ des.pending)

\* pull goes into its pinning block, where it keeps or replaces the backend,
\* only with neither a partial nor a complete value held, by the flags and in
\* the coroutine; otherwise it sends nothing but the Next of a claim; empty
\* sends the Next that discards or the Empty that interrupts, never both.
C37_Step ==
    (Suspendable({"des", "both"}) /\ Running) =>
        /\ (last'.op \in {"des.pull", "des.pull_other"} /\ des.done) =>
               /\ ~des.mid /\ ~des.pending
               /\ des.deserializer.type # "none" =>
                      /\ des.deserializer.pc \in {"eof", "claimed"}
                      /\ sends'[1].pc \in {"eof", "claimed"}
               /\ sends' # <<>>
               /\ \A i \in 1..Len(sends') :
                      /\ sends'[i].kind \in {"Kill", "Next"}
                      /\ sends'[i].pc \in {"unstarted", "eof", "claimed"}
        /\ (last'.op \in {"des.pull", "des.pull_other"} /\ ~des.done) =>
               /\ des'.deserializer.type = des.deserializer.type
               /\ IF last'.some /\ fault' = "none"
                  THEN des.pending /\ ~des.mid
                       /\ sends' = <<DesRx("Next", des.deserializer)>>
                       /\ des.deserializer.pc = "ready"
                  ELSE sends' = <<>>
        /\ (last'.op = "des.empty" /\ last'.some) =>
               /\ des.mid # des.pending
               /\ Len(sends') = 1
               /\ sends'[1] = DesRx(IF des.pending THEN "Next" ELSE "Empty", des.deserializer)
               /\ sends'[1].pc = IF des.pending THEN "ready" ELSE "read"

\* C37: the Deserializer flags are mutually exclusive (Suspendable backend):
\* between operations at most one of done, mid and pending is true; so pull
\* replaces or reuses a backend only when neither a partial nor a completed
\* value is held, and empty() never has to both discard a completed value and
\* interrupt a partial one.
C37_FlagsExclusive == [](C37_State) /\ [][C37_Step]_vars

C37_Witness ==
    /\ Suspendable({"des"})
    /\ last = Ret("des.empty", TRUE, 0)
    /\ sends = <<[to |-> "des", kind |-> "Next", pc |-> "ready", count |-> 2]>>
    /\ des.done /\ ~des.mid /\ ~des.pending
    /\ des.deserializer.pc = "claimed"
    /\ stats.des_stacks = 1
====
